---- MODULE Spec2Model ----
(***************************************************************************)
(* A model of craft-archives' APT key management                           *)
(* (craft_archives/repo/apt_key_manager.py).                               *)
(*                                                                         *)
(* The state is the filesystem the key manager works on (keyring           *)
(* directories, keyring files, gpg's backup files, key assets) and a       *)
(* record of the last operation that ran.  The external gpg executable is  *)
(* an opaque tool: each invocation takes an outcome chosen by the          *)
(* environment.  Every public method of AptKeyManager is one action.       *)
(***************************************************************************)
EXTENDS Integers, Sequences, FiniteSets, TLC

VARIABLES
    keyringsPath,   \* AptKeyManager._keyrings_path
    dirs,           \* directory |-> its mode, or Absent
    files,          \* path |-> [content, mode], for the files that exist
    assets,         \* asset file name |-> key material, for the assets that exist
    temps,          \* path |-> [content, mode], for the temporary files and
                    \* directories that exist
    installed,      \* key ids install_package_repository_key reported as newly
                    \* installed, whose keyring file was not removed since
    last,           \* the last operation: its inputs, result and tool invocations
    data,           \* the mapping a package repository is to be built from
    entry,          \* PackageRepository.unmarshal(data), once it ran
    dumped,         \* entry.marshal(), once it ran
    again,          \* PackageRepository.unmarshal of the marshalled mapping
    redumped,       \* the marshal() of that
    file,           \* the lines of a sources.list file
    sources,        \* AptSource.from_sources_list(file), once it ran
    source,         \* an AptSource
    lines,          \* source.to_sources_list(), once it ran
    reparsed,       \* what reading a file of what was debParagraph gives
    sourcesText,    \* the text of a deb822 sources file
    debSources,     \* AptSource.from_deb822 of that file, once it ran
    debParagraph,   \* source.to_deb822(), once it ran
    probe,          \* a call of _is_on_old_releases: its arguments, the
                    \* requests it made so far and its outcome
    etc,            \* the two sources files under the root's etc/apt
    site,           \* what the old-releases archive answers for each suite
    moved           \* the outcome of use_old_releases, once it ran

\* The state of the key manager, of the package repository models and of the
\* default sources.
managerVars == <<keyringsPath, dirs, files, temps, assets, installed, last>>
repoVars == <<data, entry, dumped, again, redumped>>
sourcesVars ==
    <<file, sources, source, lines, reparsed, sourcesText, debSources,
      debParagraph>>

debVars == <<sourcesText, debSources, debParagraph>>

oldVars == <<probe, etc, site, moved>>

vars == <<managerVars, repoVars, sourcesVars, oldVars>>

(***************************************************************************)
(* Bounds of the model.                                                    *)
(***************************************************************************)
\* Length of a full key fingerprint in the model (40 in reality).
KeyLen == 10

\* Largest number of keys in one piece of key material.
MaxKeys == 2

(***************************************************************************)
(* Program constants.                                                      *)
(***************************************************************************)
\* _KEYRINGS_PATH
KEYRINGS_PATH == "/etc/apt/keyrings"

\* key_id[-8:]
SuffixLen == 8

\* _expected_returncode
ExpectedReturncode == 2

\* The default of install_key_from_keyserver's key_server, and the fallback
\* of install_package_repository_key.
DefaultKeyServer == "keyserver.ubuntu.com"

\* The modes the code passes to chmod.
Mode644 == "0644"
Mode700 == "0700"

(***************************************************************************)
(* The environment's constants.                                            *)
(***************************************************************************)
CustomKeyrings == "/tmp/keyrings"
Dirs == {KEYRINGS_PATH, CustomKeyrings}
Absent == "absent"
DirMode == "0755"
\* The mode gpg gives a keyring file it creates.
GpgFileMode == "0600"
None == "None"
NoPath == <<>>
\* None, where a key id is expected.
NoKeyId == <<>>

(***************************************************************************)
(* Key ids and key material.  A key id is a sequence of characters; a      *)
(* fingerprint is a key id of KeyLen upper-case characters.                *)
(***************************************************************************)
Tail1 == <<"A", "B", "0", "0", "0", "0", "0", "1">>
Tail2 == <<"A", "B", "0", "0", "0", "0", "0", "2">>
LowerTail1 == <<"a", "b", "0", "0", "0", "0", "0", "1">>

Pad(c) == [i \in 1..(KeyLen - SuffixLen) |-> c]

FprA == Pad("1") \o Tail1
FprB == Pad("2") \o Tail2
FprC == Pad("3") \o Tail1

\* The keys that exist in the world (and on the keyserver).  FprA and FprC
\* end in the same characters.
Fingerprints == {FprA, FprB, FprC}

\* The key ids callers pass: a full fingerprint, the same spelled in lower
\* case, and a short (8 character) id of the other key.
KeyIds == {FprA, Pad("1") \o LowerTail1, Tail2}

\* Key material: the sequence of keys it holds, without repetition.
Materials ==
    {m \in UNION {[1..n -> Fingerprints] : n \in 0..MaxKeys} :
        \A i, j \in DOMAIN m : i # j => m[i] # m[j]}

KeyServers == {None, "key.server"}

\* str.upper(), on the characters of the model.
LowerCase ==
    <<"a", "b", "c", "d", "e", "f", "g", "h", "i", "j", "k", "l", "m", "n", "o",
      "p", "q", "r", "s", "t", "u", "v", "w", "x", "y", "z">>

UpperCase ==
    <<"A", "B", "C", "D", "E", "F", "G", "H", "I", "J", "K", "L", "M", "N", "O",
      "P", "Q", "R", "S", "T", "U", "V", "W", "X", "Y", "Z">>

UpperChar(c) ==
    IF \E i \in DOMAIN LowerCase : LowerCase[i] = c
    THEN UpperCase[CHOOSE i \in DOMAIN LowerCase : LowerCase[i] = c]
    ELSE c

Upper(s) == [i \in DOMAIN s |-> UpperChar(s[i])]

\* key_id[-8:]
LastChars(s) ==
    IF Len(s) <= SuffixLen THEN s ELSE SubSeq(s, Len(s) - SuffixLen + 1, Len(s))

\* pathlib's PurePath.with_suffix: the part after the last "." of the name is
\* replaced, and the suffix is appended when the name holds no ".".
WithSuffix(name, suffix) ==
    LET dots == {i \in 2..Len(name) : name[i] = "."}
    IN  IF dots = {}
        THEN name \o <<suffix>>
        ELSE LET last_dot == CHOOSE i \in dots : \A j \in dots : j <= i
             IN  SubSeq(name, 1, last_dot - 1) \o <<suffix>>

\* _get_key_path(key_id, is_ascii=..., base_path=..., prefix=...)
GetKeyPathNoUpper(key_id, is_ascii, base_path, prefix) ==
    LET file_base == (IF prefix = "" THEN <<>> ELSE <<prefix>>) \o LastChars(key_id)
    IN  [dir |-> base_path,
         name |-> WithSuffix(file_base, IF is_ascii THEN ".asc" ELSE ".gpg")]

GetKeyPath(key_id, is_ascii, base_path, prefix) ==
    LET file_base ==
            (IF prefix = "" THEN <<>> ELSE <<prefix>>) \o Upper(LastChars(key_id))
    IN  [dir |-> base_path,
         name |-> WithSuffix(file_base, IF is_ascii THEN ".asc" ELSE ".gpg")]

\* The backup file gpg leaves beside a keyring it rewrites.
BackupOf(path) == [dir |-> path.dir, name |-> path.name \o <<"~">>]

(***************************************************************************)
(* The filesystem, as a value: [dirs, files, temps].                       *)
(***************************************************************************)
IsFile(fsys, path) == path \in DOMAIN fsys.files

DirExists(fsys, d) == fsys.dirs[d] # Absent

WriteFile(fsys, path, content, mode) ==
    [fsys EXCEPT !.files =
        [p \in DOMAIN fsys.files \cup {path} |->
            IF p = path THEN [content |-> content, mode |-> mode]
            ELSE fsys.files[p]]]

\* pathlib.Path.chmod
Chmod(fsys, path, mode) ==
    [fsys EXCEPT !.files = [@ EXCEPT ![path].mode = mode]]

\* tempfile.NamedTemporaryFile() and tempfile.TemporaryDirectory() on entry of
\* their `with` block: the temporary file or directory is created, readable by
\* its owner only.
MakeTemp(fsys, path, mode) ==
    [fsys EXCEPT !.temps =
        [p \in DOMAIN fsys.temps \cup {path} |->
            IF p = path THEN [content |-> <<>>, mode |-> mode] ELSE fsys.temps[p]]]

\* temp_file.write(...); temp_file.flush()
WriteTemp(fsys, path, content) ==
    [fsys EXCEPT !.temps = [@ EXCEPT ![path].content = content]]

\* tmpdir.chmod(...)
ChmodTemp(fsys, path, mode) ==
    [fsys EXCEPT !.temps = [@ EXCEPT ![path].mode = mode]]

\* The exit of the `with` block, reached on return and on every exception:
\* the temporary file or directory is removed.
LeaveTemp(fsys, path) == fsys

RemoveTemp(fsys, path) ==
    [fsys EXCEPT !.temps = [p \in DOMAIN fsys.temps \ {path} |-> fsys.temps[p]]]

(***************************************************************************)
(* The gpg executable.  `outcome` is the environment's choice for one      *)
(* invocation: "ok" (the tool does its work), "fail" (it exits nonzero and *)
(* changes nothing) or "failCreated" (it exits nonzero after creating the  *)
(* keyring file it was pointed at).                                        *)
(***************************************************************************)
ToolOutcomes == {"ok", "fail", "failCreated"}

IsSuffix(s, t) ==
    /\ Len(s) <= Len(t)
    /\ SubSeq(t, Len(t) - Len(s) + 1, Len(t)) = s

\* gpg finds a key by a key id when the id, in upper case, ends its fingerprint.
Matches(key_id, fpr) == IsSuffix(Upper(key_id), fpr)

\* gpg creates a keyring file it is pointed at when the file is missing and
\* its directory exists.
GpgTouch(fsys, keyring) ==
    IF IsFile(fsys, keyring) \/ ~DirExists(fsys, keyring.dir)
    THEN fsys
    ELSE WriteFile(fsys, keyring, {}, GpgFileMode)

\* gpg --keyring K --list-keys ID
GpgListKeys(fsys, keyring, key_id, outcome) ==
    IF ~IsFile(fsys, keyring)
    THEN [exit |-> 2, stdout |-> <<>>, fs |-> GpgTouch(fsys, keyring)]
    ELSE IF outcome # "ok"
    THEN [exit |-> 1, stdout |-> <<>>, fs |-> fsys]
    ELSE IF \E f \in fsys.files[keyring].content : Matches(key_id, f)
    THEN [exit |-> 0, stdout |-> <<>>, fs |-> fsys]
    ELSE [exit |-> 2, stdout |-> <<>>, fs |-> fsys]

\* One key of gpg --show-keys' output: the "pub" line, the fingerprint line
\* that follows it, and the uid line.
ShowKeyLines(fpr) ==
    << [marker |-> "pub   ", text |-> <<"rsa4096">>],
       [marker |-> "      ", text |-> fpr],
       [marker |-> "uid   ", text |-> <<"uid">>] >>

RECURSIVE ShowKeysOutput(_)
ShowKeysOutput(material) ==
    IF material = <<>> THEN <<>>
    ELSE ShowKeyLines(Head(material)) \o ShowKeysOutput(Tail(material))

\* gpg --show-keys FILE, for the key material the file holds
GpgShowKeys(fsys, material, outcome) ==
    IF outcome # "ok"
    THEN [exit |-> 2, stdout |-> <<>>, fs |-> fsys]
    ELSE [exit |-> 0, stdout |-> ShowKeysOutput(material), fs |-> fsys]

\* What gpg writes when it adds `keys` to a keyring: the keyring with the keys
\* added and, when `backup`, the backup file (whose content is not modelled).
GpgAddKeys(fsys, keyring, keys, backup) ==
    LET old == IF IsFile(fsys, keyring) THEN fsys.files[keyring].content ELSE {}
        mode == IF IsFile(fsys, keyring) THEN fsys.files[keyring].mode ELSE GpgFileMode
        written == WriteFile(fsys, keyring, old \cup keys, mode)
    IN  IF backup THEN WriteFile(written, BackupOf(keyring), {}, GpgFileMode)
        ELSE written

\* gpg --keyring K --import -
GpgImport(fsys, keyring, material, outcome, backup) ==
    IF ~DirExists(fsys, keyring.dir) \/ outcome = "fail"
    THEN [exit |-> 2, stdout |-> <<>>, fs |-> fsys]
    ELSE IF outcome = "failCreated"
    THEN [exit |-> 2, stdout |-> <<>>, fs |-> GpgTouch(fsys, keyring)]
    ELSE [exit |-> 0, stdout |-> <<>>,
          fs |-> GpgAddKeys(fsys, keyring, {material[i] : i \in DOMAIN material},
                            backup)]

\* gpg --keyring K --homedir D --keyserver S --recv-keys ID
GpgRecvKeys(fsys, keyring, key_id, outcome) ==
    LET found == {f \in Fingerprints : Matches(key_id, f)}
    IN  IF ~DirExists(fsys, keyring.dir) \/ outcome = "fail"
        THEN [exit |-> 2, stdout |-> <<>>, fs |-> fsys]
        ELSE IF outcome = "failCreated" \/ found = {}
        THEN [exit |-> 2, stdout |-> <<>>, fs |-> GpgTouch(fsys, keyring)]
        ELSE [exit |-> 0, stdout |-> <<>>,
              fs |-> GpgAddKeys(fsys, keyring, found, FALSE)]

(***************************************************************************)
(* Results of operations.  An operation yields [fs, ret, exc, events]:     *)
(* the filesystem it leaves, its return value, the exception it raised (if *)
(* any) and the tool invocations, chmod calls and method calls it made, in *)
(* order.                                                                  *)
(***************************************************************************)
NoExc == [type |-> "none", message |-> None, key |-> None, key_id |-> None,
          key_server |-> None]

\* errors.AptGPGKeyInstallError(output, key=..., key_id=..., key_server=...)
AptGPGKeyInstallError(message, key, key_id, key_server) ==
    [type |-> "AptGPGKeyInstallError", message |-> message, key |-> key,
     key_id |-> key_id, key_server |-> key_server]

\* subprocess.CalledProcessError, whose output is what the tool printed.
CalledProcessError(output) ==
    [type |-> "CalledProcessError", message |-> output, key |-> None,
     key_id |-> None, key_server |-> None]

RuntimeError(message) ==
    [type |-> "RuntimeError", message |-> message, key |-> None, key_id |-> None,
     key_server |-> None]

AptPPAInstallError(ppa) ==
    [type |-> "AptPPAInstallError", message |-> ppa, key |-> None, key_id |-> None,
     key_server |-> None]

\* One event of an operation.
GpgEvent(cmd, arg, keyring, exit) ==
    [ev |-> "gpg", cmd |-> cmd, arg |-> arg, keyring |-> keyring, exit |-> exit]

ChmodEvent(path, mode) ==
    [ev |-> "chmod", cmd |-> mode, arg |-> None, keyring |-> path, exit |-> 0]

LogEvent(level, message) ==
    [ev |-> "log", cmd |-> level, arg |-> message, keyring |-> NoPath, exit |-> 0]

\* A temporary file or directory is created or removed.
TempEvent(action, path) ==
    [ev |-> "temp", cmd |-> action, arg |-> None, keyring |-> path, exit |-> 0]

CallEvent(method, arg) ==
    [ev |-> "call", cmd |-> method, arg |-> arg, keyring |-> NoPath, exit |-> 0]

Result(fsys, ret, exc, events) ==
    [fs |-> fsys, ret |-> ret, exc |-> exc, events |-> events]

\* The output a failed tool leaves in CalledProcessError.output.
ToolOutput == "some error"

\* subprocess.run(..., check=True): what _call_gpg raises for an exit code.
CallGpgRaises(exit) ==
    IF exit # 0 THEN CalledProcessError(ToolOutput) ELSE NoExc

\* except subprocess.CalledProcessError as error:
\*     raise errors.AptGPGKeyInstallError(error.output.decode(), ...)
\* Any other exception passes through.
ExceptNothing(exc, key, key_id, key_server) == exc

ExceptCalledProcessError(exc, key, key_id, key_server) ==
    IF exc.type = "CalledProcessError"
    THEN AptGPGKeyInstallError(exc.message, key, key_id, key_server)
    ELSE exc

(***************************************************************************)
(* AptKeyManager.                                                          *)
(***************************************************************************)
\* AptKeyManager.find_asset_with_key_id: the asset's name, or None.
FindAssetNever(assetFiles, key_id) == None

FindAssetWithKeyId(assetFiles, key_id) ==
    LET key_path == GetKeyPath(key_id, TRUE, "key-assets", "")
    IN  IF key_path.name \in DOMAIN assetFiles THEN key_path.name ELSE None

\* _gen_gpg_fingerprints: the line after every line that starts with "pub   ".
RECURSIVE GenGpgFingerprintsFrom(_, _)
GenGpgFingerprintsFrom(response, index) ==
    IF index > Len(response) THEN <<>>
    ELSE IF response[index].marker = "pub   "
    THEN <<response[index + 1].text>> \o GenGpgFingerprintsFrom(response, index + 1)
    ELSE GenGpgFingerprintsFrom(response, index + 1)

\* The temporary file of get_key_fingerprints.
TmpFile == [dir |-> "/tmp", name |-> <<"tmpfile">>]

\* AptKeyManager.get_key_fingerprints: [exit, fingerprints, fs], where a
\* nonzero exit stands for the CalledProcessError of the tool.  The key is
\* written to a temporary file, which the tool reads.
GetKeyFingerprints(fsys, key, outcome) ==
    LET staged == WriteTemp(MakeTemp(fsys, TmpFile, GpgFileMode), TmpFile, key)
        shown == GpgShowKeys(staged, staged.temps[TmpFile].content, outcome)
    IN  [exit |-> shown.exit,
         fingerprints |->
            IF shown.exit = 0 THEN GenGpgFingerprintsFrom(shown.stdout, 1) ELSE <<>>,
         fs |-> RemoveTemp(shown.fs, TmpFile),
         events |-> <<TempEvent("create", TmpFile),
                      GpgEvent("--show-keys", key, NoPath, shown.exit),
                      TempEvent("remove", TmpFile)>>]

\* AptKeyManager.is_key_installed(key_id=..., keyring_path=...)
IsKeyInstalledNoFileCheck(fsys, key_id, keyring_path, outcome) ==
    LET keyring_file == GetKeyPath(key_id, FALSE, keyring_path, "craft-")
        listed == GpgListKeys(fsys, keyring_file, key_id, outcome)
    IN  Result(listed.fs, listed.exit = 0, NoExc,
               <<GpgEvent("--list-keys", key_id, keyring_file, listed.exit)>>)

IsKeyInstalledUnlessExpected(fsys, key_id, keyring_path, outcome) ==
    LET keyring_file == GetKeyPath(key_id, FALSE, keyring_path, "craft-")
        listed == GpgListKeys(fsys, keyring_file, key_id, outcome)
    IN  IF ~IsFile(fsys, keyring_file)
        THEN Result(fsys, FALSE, NoExc, <<>>)
        ELSE Result(listed.fs, listed.exit # ExpectedReturncode, NoExc,
                    <<GpgEvent("--list-keys", key_id, keyring_file, listed.exit)>>)

IsKeyInstalledIfFileExists(fsys, key_id, keyring_path, outcome) ==
    LET keyring_file == GetKeyPath(key_id, FALSE, keyring_path, "craft-")
    IN  Result(fsys, IsFile(fsys, keyring_file), NoExc, <<>>)

IsKeyInstalled(fsys, key_id, keyring_path, outcome) ==
    LET keyring_file == GetKeyPath(key_id, FALSE, keyring_path, "craft-")
        listed == GpgListKeys(fsys, keyring_file, key_id, outcome)
        listing == GpgEvent("--list-keys", key_id, keyring_file, listed.exit)
    IN  IF ~IsFile(fsys, keyring_file)
        THEN Result(fsys, FALSE, NoExc, <<>>)
        ELSE IF listed.exit # 0
        THEN Result(listed.fs, FALSE, NoExc,
                    <<listing>>
                    \o (IF listed.exit # ExpectedReturncode
                        THEN <<LogEvent("warning", "Unexpected gpg failure")>>
                        ELSE <<>>)
                    \o <<LogEvent("warning", "does not contain the expected key")>>)
        ELSE Result(listed.fs, TRUE, NoExc, <<listing>>)

\* install_key's check of the fingerprints: the message of the error it raises,
\* or None.
CheckFingerprintsOnlyEmpty(fingerprints) ==
    IF fingerprints = <<>> THEN "Invalid GPG key" ELSE None

CheckFingerprints(fingerprints) ==
    IF fingerprints = <<>> THEN "Invalid GPG key"
    ELSE IF Len(fingerprints) # 1 THEN "Key must be a single key, not multiple."
    ELSE None

\* AptKeyManager.install_key(key=...)
InstallKey(fsys, keyrings_path, key, shown, imported, backup) ==
    LET listed == GetKeyFingerprints(fsys, key, shown)
        fingerprints == listed.fingerprints
        keyring_path == GetKeyPath(fingerprints[1], FALSE, keyrings_path, "craft-")
        import == GpgImport(listed.fs, keyring_path, key, imported, backup)
        importing == GpgEvent("--import", key, keyring_path, import.exit)
    IN  IF listed.exit # 0
        THEN Result(listed.fs, None,
                    ExceptCalledProcessError(CallGpgRaises(listed.exit), key,
                                             None, None),
                    listed.events)
        ELSE IF CheckFingerprints(fingerprints) # None
        THEN Result(listed.fs, None,
                    AptGPGKeyInstallError(CheckFingerprints(fingerprints), key,
                                          None, None),
                    listed.events)
        ELSE IF import.exit # 0
        THEN Result(import.fs, None,
                    ExceptCalledProcessError(CallGpgRaises(import.exit), key,
                                             None, None),
                    listed.events \o <<importing>>)
        ELSE Result(Chmod(import.fs, keyring_path, Mode644), None, NoExc,
                    listed.events
                    \o <<importing, ChmodEvent(keyring_path, Mode644)>>)

\* The temporary directory of install_key_from_keyserver.
TmpDir == [dir |-> "/tmp", name |-> <<"tmpdir">>]

InstallKeyFromKeyserverAlwaysChmod(fsys, keyrings_path, key_id, key_server, received) ==
    LET keyring_path == GetKeyPath(key_id, FALSE, keyrings_path, "craft-")
        homedir == ChmodTemp(MakeTemp(fsys, TmpDir, Mode700), TmpDir, Mode700)
        recv == GpgRecvKeys(homedir, keyring_path, key_id, received)
        receiving ==
            GpgEvent("--recv-keys", <<key_id, key_server>>, keyring_path, recv.exit)
        left == RemoveTemp(recv.fs, TmpDir)
        scoped == <<TempEvent("create", TmpDir), ChmodEvent(TmpDir, Mode700),
                    receiving, TempEvent("remove", TmpDir)>>
    IN  Result(Chmod(left, keyring_path, Mode644), None,
               IF recv.exit # 0
               THEN ExceptCalledProcessError(CallGpgRaises(recv.exit), None,
                                             key_id, key_server)
               ELSE NoExc,
               scoped \o <<ChmodEvent(keyring_path, Mode644)>>)

\* AptKeyManager.install_key_from_keyserver(key_id=..., key_server=...)
InstallKeyFromKeyserver(fsys, keyrings_path, key_id, key_server, received) ==
    LET keyring_path == GetKeyPath(key_id, FALSE, keyrings_path, "craft-")
        homedir == ChmodTemp(MakeTemp(fsys, TmpDir, Mode700), TmpDir, Mode700)
        recv == GpgRecvKeys(homedir, keyring_path, key_id, received)
        receiving ==
            GpgEvent("--recv-keys", <<key_id, key_server>>, keyring_path, recv.exit)
        left == RemoveTemp(recv.fs, TmpDir)
        scoped == <<TempEvent("create", TmpDir), ChmodEvent(TmpDir, Mode700),
                    receiving, TempEvent("remove", TmpDir)>>
    IN  IF recv.exit # 0
        THEN Result(left, None,
                    ExceptCalledProcessError(CallGpgRaises(recv.exit), None,
                                             key_id, key_server),
                    scoped)
        ELSE Result(Chmod(left, keyring_path, Mode644), None, NoExc,
                    scoped \o <<ChmodEvent(keyring_path, Mode644)>>)

(***************************************************************************)
(* Package repositories, as install_package_repository_key reads them.     *)
(***************************************************************************)
PackageRepositoryApt(key_id, key_server) ==
    [kind |-> "apt", key_id |-> key_id, key_server |-> key_server, ppa |-> None]

PackageRepositoryAptPPA(ppa) ==
    [kind |-> "ppa", key_id |-> NoKeyId, key_server |-> None, ppa |-> ppa]

PackageRepositoryAptUCA ==
    [kind |-> "uca", key_id |-> NoKeyId, key_server |-> None, ppa |-> None]

Ppas == {"test/ppa"}

\* An Apt entry's key id is a full upper-case fingerprint.
PackageRepositories ==
    {PackageRepositoryApt(k, s) : k \in Fingerprints, s \in KeyServers}
    \cup {PackageRepositoryAptPPA(p) : p \in Ppas}
    \cup {PackageRepositoryAptUCA}

\* apt_ppa.get_launchpad_ppa_key_id: the signing key fingerprint Launchpad
\* holds for the PPA.
GetLaunchpadPpaKeyId(ppa) == FprB

\* The key server install_package_repository_key passes on.
ResolveKeyServerAsGiven(key_server) == key_server

ResolveKeyServer(key_server) ==
    IF key_server = None THEN DefaultKeyServer ELSE key_server

\* The value install_package_repository_key returns after an install.
ReturnsUnchanged == FALSE

ReturnsChanged == TRUE

\* AptKeyManager.install_package_repository_key(package_repo=...), once the
\* key id and key server are known.
InstallResolvedKey(fsys, keyrings_path, assetFiles, key_id, key_server, listed, first, second, backup) ==
    LET check == IsKeyInstalled(fsys, key_id, KEYRINGS_PATH, listed)
        checking == <<CallEvent("is_key_installed", <<key_id, check.ret>>)>>
                    \o check.events
        key_path == FindAssetWithKeyId(assetFiles, key_id)
        from_asset ==
            InstallKey(check.fs, keyrings_path, assetFiles[key_path], first, second,
                       backup)
        server == ResolveKeyServer(key_server)
        from_server ==
            InstallKeyFromKeyserver(check.fs, keyrings_path, key_id, server, first)
        install == IF key_path # None THEN from_asset ELSE from_server
        installing ==
            IF key_path # None
            THEN <<CallEvent("install_key", assetFiles[key_path])>>
            ELSE <<CallEvent("install_key_from_keyserver", <<key_id, server>>)>>
    IN  IF check.ret
        THEN Result(check.fs, FALSE, NoExc, checking)
        ELSE IF install.exc.type # "none"
        THEN Result(install.fs, None, install.exc,
                    checking \o installing \o install.events)
        ELSE Result(install.fs, ReturnsChanged, NoExc,
                    checking \o installing \o install.events)

InstallPackageRepositoryKeyOfAnyEntry(fsys, keyrings_path, assetFiles, package_repo, resolved, listed, first, second, backup) ==
    IF package_repo.kind = "ppa"
    THEN IF resolved
         THEN InstallResolvedKey(fsys, keyrings_path, assetFiles,
                                 GetLaunchpadPpaKeyId(package_repo.ppa), None,
                                 listed, first, second, backup)
         ELSE Result(fsys, None, AptPPAInstallError(package_repo.ppa), <<>>)
    ELSE InstallResolvedKey(fsys, keyrings_path, assetFiles,
                            IF package_repo.kind = "apt" THEN package_repo.key_id
                            ELSE FprA,
                            package_repo.key_server, listed, first, second, backup)

\* AptKeyManager.install_package_repository_key(package_repo=...)
InstallPackageRepositoryKey(fsys, keyrings_path, assetFiles, package_repo, resolved, listed, first, second, backup) ==
    IF package_repo.kind = "ppa"
    THEN IF resolved
         THEN InstallResolvedKey(fsys, keyrings_path, assetFiles,
                                 GetLaunchpadPpaKeyId(package_repo.ppa), None,
                                 listed, first, second, backup)
         ELSE Result(fsys, None, AptPPAInstallError(package_repo.ppa), <<>>)
    ELSE IF package_repo.kind = "apt"
    THEN InstallResolvedKey(fsys, keyrings_path, assetFiles, package_repo.key_id,
                            package_repo.key_server, listed, first, second, backup)
    ELSE Result(fsys, None, RuntimeError("unhandled package repo type"), <<>>)

(***************************************************************************)
(* Package repositories (craft_archives/repo/package_repository.py).       *)
(*                                                                         *)
(* A Python string is a sequence of tokens (characters, or words where the *)
(* code never looks inside them).  A Python value is a record with a tag;  *)
(* a mapping's items are a function from keys (strings) to values.         *)
(***************************************************************************)
NoItems == [k \in {} |-> 0]

PyNone == [tag |-> "none", int |-> 0, str |-> <<>>, list |-> <<>>, items |-> NoItems]

PyInt(n) == [tag |-> "int", int |-> n, str |-> <<>>, list |-> <<>>, items |-> NoItems]

PyStr(s) == [tag |-> "str", int |-> 0, str |-> s, list |-> <<>>, items |-> NoItems]

PyList(l) == [tag |-> "list", int |-> 0, str |-> <<>>, list |-> l, items |-> NoItems]

PyDict(items) == [tag |-> "dict", int |-> 0, str |-> <<>>, list |-> <<>>, items |-> items]

\* A key the mapping does not hold, a keyword argument that is not passed.
PyMissing == [tag |-> "missing", int |-> 0, str |-> <<>>, list |-> <<>>, items |-> NoItems]

\* bool(value)
Truthy(value) ==
    CASE value.tag = "int" -> value.int # 0
      [] value.tag = "str" -> value.str # <<>>
      [] value.tag = "list" -> value.list # <<>>
      [] value.tag = "dict" -> DOMAIN value.items # {}
      [] OTHER -> FALSE

\* a or b
PyOr(a, b) == IF Truthy(a) THEN a ELSE b

\* str(value), for None and for strings
PyStrOf(value) ==
    IF value.tag = "none" THEN PyStr(<<"N", "o", "n", "e">>) ELSE value

\* mapping.get(key)
DictGet(items, key) == IF key \in DOMAIN items THEN items[key] ELSE PyNone

\* PriorityString
ALWAYS == 1000
PREFER == 990
DEFER == 100

PriorityString ==
    (<<"A", "L", "W", "A", "Y", "S">> :> ALWAYS)
    @@ (<<"P", "R", "E", "F", "E", "R">> :> PREFER)
    @@ (<<"D", "E", "F", "E", "R">> :> DEFER)

\* The strings of PriorityValue's Literal.
PriorityLiterals ==
    { <<"a", "l", "w", "a", "y", "s">>, <<"p", "r", "e", "f", "e", "r">>,
      <<"d", "e", "f", "e", "r">> }

\* The names of the fields.
Field ==
    [type |-> <<"type">>, priority |-> <<"priority">>, url |-> <<"url">>,
     key_id |-> <<"key", "_", "id">>, architectures |-> <<"architectures">>,
     formats |-> <<"formats">>, path |-> <<"path">>,
     components |-> <<"components">>, key_server |-> <<"key", "_", "server">>,
     suites |-> <<"suites">>, ppa |-> <<"ppa">>, cloud |-> <<"cloud">>,
     pocket |-> <<"pocket">>]

\* The fields of each class, in the order of their declaration.
FieldsOf(cls) ==
    <<Field.type, Field.priority>>
    \o (CASE cls = "PackageRepositoryAptPPA" -> <<Field.ppa>>
          [] cls = "PackageRepositoryAptUCA" -> <<Field.cloud, Field.pocket>>
          [] OTHER -> <<Field.url, Field.key_id, Field.architectures, Field.formats,
                        Field.path, Field.components, Field.key_server, Field.suites>>)

\* The fields without a default.
RequiredFields == {Field.type, Field.url, Field.key_id, Field.ppa, Field.cloud}

\* The default of a field that has one.
DefaultOf(name) ==
    IF name = Field.pocket THEN PyStr(<<"updates">>) ELSE PyNone

\* _alias_generator: value.replace("_", "-")
AliasGenerator(value) ==
    [i \in DOMAIN value |-> IF value[i] = "_" THEN "-" ELSE value[i]]

\* The value given for a field: under its alias or (populate_by_name) under
\* its name.
FieldInput(items, name) ==
    IF AliasGenerator(name) \in DOMAIN items THEN items[AliasGenerator(name)]
    ELSE IF name \in DOMAIN items THEN items[name]
    ELSE PyMissing

\* _create_validation_error(url=..., message=...): the message names the url
\* when there is one.
CreateValidationError(url, message) ==
    [loc |-> <<>>, message |-> message, url |-> IF Truthy(url) THEN url ELSE PyNone]

\* An error of pydantic's own validation of a value.
CoreError(kind) == [loc |-> <<>>, message |-> kind, url |-> PyNone]

\* What validating one field gives: the value, or the errors, or a raised
\* exception that is no validation error (TypeError).
Valid(value) == [value |-> value, errors |-> <<>>, raised |-> FALSE]

Invalid(error) == [value |-> PyNone, errors |-> <<error>>, raised |-> FALSE]

RaisedTypeError == [value |-> PyNone, errors |-> <<>>, raised |-> TRUE]

\* info.data.get(name): the fields validated so far.
InfoGet(info, name) == IF name \in DOMAIN info THEN info[name] ELSE PyNone

\* A string of decimal digits, which pydantic converts to an int.
Digits == <<"0", "1", "2", "3", "4", "5", "6", "7", "8", "9">>

IsIntString(s) ==
    /\ s # <<>>
    /\ \A i \in DOMAIN s : \E d \in DOMAIN Digits : Digits[d] = s[i]

RECURSIVE ParseInt(_)
ParseInt(s) ==
    IF s = <<>> THEN 0
    ELSE 10 * ParseInt(SubSeq(s, 1, Len(s) - 1))
         + (CHOOSE d \in DOMAIN Digits : Digits[d] = s[Len(s)]) - 1

\* type: Literal["apt"]
ValidateType(value) ==
    IF value.tag = "str" /\ value.str = <<"apt">> THEN Valid(value)
    ELSE Invalid(CoreError("literal_error"))

\* PackageRepository.priority_cannot_be_zero (mode="before": on the mapping
\* as given)
PriorityCannotBeZero(values) ==
    LET priority == DictGet(values, Field.priority)
        url == PyStrOf(PyOr(PyOr(DictGet(values, Field.url), DictGet(values, Field.ppa)),
                            DictGet(values, Field.cloud)))
    IN  IF priority.tag = "int" /\ priority.int = 0
        THEN <<CreateValidationError(url, "invalid priority: Priority cannot be zero.")>>
        ELSE <<>>

\* priority: Optional[Union[int, Literal["always", "prefer", "defer"]]]: an
\* int or one of the literals is taken as it is; failing that, a string of
\* digits is converted to the int it spells.
CorePriority(value) ==
    IF value.tag \in {"none", "int"} THEN Valid(value)
    ELSE IF value.tag = "str" /\ value.str \in PriorityLiterals THEN Valid(value)
    ELSE IF value.tag = "str" /\ IsIntString(value.str)
    THEN Valid(PyInt(ParseInt(value.str)))
    ELSE Invalid(CoreError("int_parsing"))

\* PackageRepository._convert_priority_to_int
ConvertPriorityToInt(priority, info) ==
    LET str_priority == Upper(priority.str)
        url == PyStrOf(PyOr(PyOr(InfoGet(info, Field.url), InfoGet(info, Field.ppa)),
                            InfoGet(info, Field.cloud)))
    IN  IF priority.tag = "str"
        THEN IF str_priority \in DOMAIN PriorityString
             THEN Valid(PyInt(PriorityString[str_priority]))
             ELSE Invalid(CreateValidationError(url, "invalid priority"))
        ELSE Valid(priority)

\* The validators of a field are given the value that the validation of
\* its type gave, when there is one.
Checked(core, validated) == IF core.errors # <<>> THEN core ELSE validated

\* A URL is <<scheme, "://", host>> followed by the tokens of its path.
IsUrl(s) == Len(s) >= 3 /\ s[2] = "://" /\ s[1] \in {"http", "https"}

\* str(AnyUrl(s)): a URL without a path gets the path "/".
UrlStr(s) == IF Len(s) = 3 THEN s \o <<"/">> ELSE s

\* s.rstrip("/")
RECURSIVE RStripSlash(_)
RStripSlash(s) ==
    IF s # <<>> /\ s[Len(s)] = "/" THEN RStripSlash(SubSeq(s, 1, Len(s) - 1))
    ELSE s

\* url: Union[AnyUrl, FileUrl], then PackageRepositoryApt._convert_url_to_string
ValidateUrl(value) ==
    IF value.tag = "str" /\ IsUrl(value.str)
    THEN Valid(PyStr(RStripSlash(UrlStr(value.str))))
    ELSE Invalid(CoreError("url_parsing"))

\* key_id: StringConstraints(min_length=40, max_length=40,
\*                           pattern=r"^[0-9A-F]{40}$")
KeyIdLength == 40

HexUpper ==
    {"0", "1", "2", "3", "4", "5", "6", "7", "8", "9", "A", "B", "C", "D", "E", "F"}

HexAnyCase == HexUpper \cup {"a", "b", "c", "d", "e", "f"}

MatchesKeyIdPatternAnyCase(s) ==
    Len(s) = KeyIdLength /\ \A i \in DOMAIN s : s[i] \in HexAnyCase

MatchesKeyIdPattern(s) ==
    Len(s) = KeyIdLength /\ \A i \in DOMAIN s : s[i] \in HexUpper

ValidateKeyId(value) ==
    IF value.tag # "str" THEN Invalid(CoreError("string_type"))
    ELSE IF Len(value.str) < KeyIdLength THEN Invalid(CoreError("string_too_short"))
    ELSE IF Len(value.str) > KeyIdLength THEN Invalid(CoreError("string_too_long"))
    ELSE IF ~MatchesKeyIdPattern(value.str)
    THEN Invalid(CoreError("string_pattern_mismatch"))
    ELSE Valid(value)

\* Optional[str], Optional[List[str]] and str (the elements of the model's
\* lists are strings)
CoreOptional(value, tag) ==
    IF value.tag \in {"none", tag} THEN Valid(value)
    ELSE Invalid(CoreError("type_error"))

CoreStr(value) ==
    IF value.tag = "str" THEN Valid(value) ELSE Invalid(CoreError("string_type"))

\* formats: Optional[List[Literal["deb", "deb-src"]]]
ValidateFormats(value) ==
    IF value.tag = "none" THEN Valid(value)
    ELSE IF value.tag # "list" THEN Invalid(CoreError("list_type"))
    ELSE IF \E i \in DOMAIN value.list :
                value.list[i] \notin {<<"deb">>, <<"deb", "-", "src">>}
    THEN Invalid(CoreError("literal_error"))
    ELSE Valid(value)

\* PackageRepositoryApt._path_non_empty
PathNonEmpty(path, info) ==
    IF path.tag # "none" /\ ~Truthy(path)
    THEN Invalid(CreateValidationError(InfoGet(info, Field.url),
                    "Invalid path; Paths must be non-empty strings."))
    ELSE Valid(path)

\* PackageRepositoryApt._not_mixing_components_and_path
NotMixingComponentsAndPath(components, info) ==
    IF Truthy(components) /\ Truthy(InfoGet(info, Field.path))
    THEN Invalid(CreateValidationError(InfoGet(info, Field.url),
                    "components cannot be combined with path."))
    ELSE Valid(components)

\* PackageRepositoryApt._not_mixing_suites_and_path
NotMixingSuitesAndPath(suites, info) ==
    IF Truthy(suites) /\ Truthy(InfoGet(info, Field.path))
    THEN Invalid(CreateValidationError(InfoGet(info, Field.url),
                    "suites cannot be combined with path."))
    ELSE Valid(suites)

\* PackageRepositoryApt._suites_without_backslash: `for suite in suites`
\* raises TypeError when suites is None.
SuitesWithoutBackslash(suites, info) ==
    IF suites.tag # "list" THEN RaisedTypeError
    ELSE IF \E i \in DOMAIN suites.list :
                /\ suites.list[i] # <<>>
                /\ suites.list[i][Len(suites.list[i])] = "/"
    THEN Invalid(CreateValidationError(InfoGet(info, Field.url),
                    "invalid suite. Suites must not end with a '/'."))
    ELSE Valid(suites)

\* PackageRepositoryApt._missing_components_or_suites (mode="before")
MissingComponentsOnly(values) ==
    LET suites == DictGet(values, Field.suites)
        components == DictGet(values, Field.components)
        url == DictGet(values, Field.url)
    IN  IF Truthy(suites) /\ ~Truthy(components)
        THEN <<CreateValidationError(url,
                    "components must be specified when using suites.")>>
        ELSE <<>>

MissingComponentsOrSuites(values) ==
    LET suites == DictGet(values, Field.suites)
        components == DictGet(values, Field.components)
        url == DictGet(values, Field.url)
    IN  IF Truthy(suites) /\ ~Truthy(components)
        THEN <<CreateValidationError(url,
                    "components must be specified when using suites.")>>
        ELSE IF Truthy(components) /\ ~Truthy(suites)
        THEN <<CreateValidationError(url,
                    "suites must be specified when using components.")>>
        ELSE <<>>

\* PackageRepositoryAptPPA._non_empty_ppa
NonEmptyPpa(ppa) ==
    IF ~Truthy(ppa)
    THEN Invalid(CreateValidationError(PyNone,
                    "Invalid PPA: PPAs must be non-empty strings."))
    ELSE Valid(ppa)

\* PackageRepositoryAptUCA._non_empty_cloud
NonEmptyCloud(cloud) ==
    IF ~Truthy(cloud)
    THEN Invalid(CreateValidationError(PyNone, "clouds must be non-empty strings."))
    ELSE Valid(cloud)

\* pocket: Literal["updates", "proposed"]
ValidatePocket(value) ==
    IF value.tag = "str" /\ value.str \in {<<"updates">>, <<"proposed">>}
    THEN Valid(value)
    ELSE Invalid(CoreError("literal_error"))

\* The validation of one field that was given: pydantic's validation of the
\* type, then the field's validators in the order of their definition.
ValidateField(name, value, info) ==
    CASE name = Field.type -> ValidateType(value)
      [] name = Field.priority ->
            Checked(CorePriority(value),
                    ConvertPriorityToInt(CorePriority(value).value, info))
      [] name = Field.url -> ValidateUrl(value)
      [] name = Field.key_id -> ValidateKeyId(value)
      [] name = Field.architectures -> CoreOptional(value, "list")
      [] name = Field.formats -> ValidateFormats(value)
      [] name = Field.path ->
            Checked(CoreOptional(value, "str"), PathNonEmpty(value, info))
      [] name = Field.components ->
            Checked(CoreOptional(value, "list"),
                    NotMixingComponentsAndPath(value, info))
      [] name = Field.key_server -> CoreOptional(value, "str")
      [] name = Field.suites ->
            Checked(CoreOptional(value, "list"),
                    Checked(NotMixingSuitesAndPath(value, info),
                            SuitesWithoutBackslash(value, info)))
      [] name = Field.ppa -> Checked(CoreStr(value), NonEmptyPpa(value))
      [] name = Field.cloud -> Checked(CoreStr(value), NonEmptyCloud(value))
      [] name = Field.pocket -> ValidatePocket(value)

\* The fields are validated in order; info holds the ones that were valid.
\* A field that is not given takes its default, unvalidated.
RECURSIVE ValidateFields(_, _, _, _)
ValidateFields(items, fields, info, errors) ==
    IF fields = <<>>
    THEN [fields |-> info, errors |-> errors, raised |-> FALSE]
    ELSE LET name == Head(fields)
             value == FieldInput(items, name)
             result ==
                IF value # PyMissing THEN ValidateField(name, value, info)
                ELSE IF name \in RequiredFields THEN Invalid(CoreError("missing"))
                ELSE Valid(DefaultOf(name))
         IN  IF result.raised
             THEN [fields |-> info, errors |-> errors, raised |-> TRUE]
             ELSE ValidateFields(items, Tail(fields),
                                 IF result.errors = <<>>
                                 THEN info @@ (name :> result.value)
                                 ELSE info,
                                 errors
                                 \o [i \in DOMAIN result.errors |->
                                        [result.errors[i] EXCEPT !.loc = name]])

\* extra="forbid": the keys that are no field's alias or name.
ExtraKeys(cls, items) ==
    {k \in DOMAIN items :
        \A i \in DOMAIN FieldsOf(cls) :
            k \notin {FieldsOf(cls)[i], AliasGenerator(FieldsOf(cls)[i])}}

\* The model validators of mode "before": the subclass's runs first, and the
\* first error ends the validation.
BeforeValidators(cls, values) ==
    IF cls = "PackageRepositoryApt" /\ MissingComponentsOrSuites(values) # <<>>
    THEN MissingComponentsOrSuites(values)
    ELSE PriorityCannotBeZero(values)

\* What a construction or an unmarshal gives: an object of a class, or the
\* exception raised.
NoFields == [f \in {} |-> PyNone]

Built(cls, fields) == [status |-> "ok", cls |-> cls, fields |-> fields, errors |-> <<>>]

Failed(status, cls, errors) ==
    [status |-> status, cls |-> cls, fields |-> NoFields, errors |-> errors]

NotBuilt == [status |-> "none", cls |-> "none", fields |-> NoFields, errors |-> <<>>]

\* cls(**data)
Construct(cls, items) ==
    LET before == BeforeValidators(cls, items)
        validated == ValidateFields(items, FieldsOf(cls), NoFields, <<>>)
        extras == ExtraKeys(cls, items)
    IN  IF before # <<>> THEN Failed("ValidationError", cls, before)
        ELSE IF validated.raised THEN Failed("TypeError", cls, <<>>)
        ELSE IF validated.errors # <<>> \/ extras # {}
        THEN Failed("ValidationError", cls,
                    validated.errors
                    \o (IF extras # {} THEN <<CoreError("extra_forbidden")>>
                        ELSE <<>>))
        ELSE Built(cls, validated.fields)

\* PackageRepository.unmarshal(data)
Unmarshal(value) ==
    IF value.tag # "dict"
    THEN Failed("PackageRepositoryValidationError", "none",
                <<CreateValidationError(PyNone, "invalid object.")>>)
    ELSE IF Field.ppa \in DOMAIN value.items
    THEN Construct("PackageRepositoryAptPPA", value.items)
    ELSE IF Field.cloud \in DOMAIN value.items
    THEN Construct("PackageRepositoryAptUCA", value.items)
    ELSE Construct("PackageRepositoryApt", value.items)

\* PackageRepository.marshal: model_dump(by_alias=True, exclude_none=True)
Marshal(object) ==
    LET present == {f \in DOMAIN object.fields : object.fields[f].tag # "none"}
    IN  PyDict([k \in {AliasGenerator(f) : f \in present} |->
                   object.fields[CHOOSE f \in present : AliasGenerator(f) = k]])

\* The same mapping with every key spelled as the field's name.
ByName(value) ==
    LET names == {f \in {Field[n] : n \in DOMAIN Field} :
                    AliasGenerator(f) \in DOMAIN value.items}
    IN  PyDict([f \in names |-> value.items[AliasGenerator(f)]])

\* No package repository is being built.
NotAgain == [by_name |-> FALSE, object |-> NotBuilt]

NoRepository ==
    /\ data = PyMissing
    /\ entry = NotBuilt
    /\ dumped = PyMissing
    /\ again = NotAgain
    /\ redumped = PyMissing

(***************************************************************************)
(* Default sources (craft_archives/defaults.py).                           *)
(*                                                                         *)
(* A sources.list file is the sequence of its lines, as iterating over the *)
(* open file gives them; a line is a string, a sequence of tokens of which *)
(* " ", "\t" and "\n" are the whitespace.  A deb822 file is its text, one   *)
(* string.  An AptSource is the record of its fields; signed_by and        *)
(* architectures stay None in the one-line format.                         *)
(***************************************************************************)
Whitespace == {" ", "\t", "\n"}

\* s.lstrip()
RECURSIVE LStrip(_)
LStrip(s) == IF s # <<>> /\ s[1] \in Whitespace THEN LStrip(Tail(s)) ELSE s

\* s.rstrip()
RECURSIVE RStrip(_)
RStrip(s) ==
    IF s # <<>> /\ s[Len(s)] \in Whitespace THEN RStrip(SubSeq(s, 1, Len(s) - 1))
    ELSE s

\* s.strip()
Strip(s) == RStrip(LStrip(s))

\* s.split(maxsplit=maxsplit), and s.split() for maxsplit = -1: the words
\* between runs of whitespace; after maxsplit words, what is left without
\* its leading whitespace is the last element.
RECURSIVE Split(_, _)
Split(s, maxsplit) ==
    LET rest == LStrip(s)
        word == CHOOSE n \in 1..Len(rest) :
                    /\ \A i \in 1..n : rest[i] \notin Whitespace
                    /\ n = Len(rest) \/ rest[n + 1] \in Whitespace
    IN  IF rest = <<>> THEN <<>>
        ELSE IF maxsplit = 0 THEN <<rest>>
        ELSE <<SubSeq(rest, 1, word)>>
             \o Split(SubSeq(rest, word + 1, Len(rest)), maxsplit - 1)

\* " ".join(words)
RECURSIVE Join(_)
Join(words) ==
    IF words = <<>> THEN <<>>
    ELSE IF Len(words) = 1 THEN words[1]
    ELSE words[1] \o <<" ">> \o Join(Tail(words))

\* Literal["deb", "deb-src"]
ValidTypes == {<<"deb">>, <<"deb-src">>}

AptSource(types, uris, suites, components) ==
    [types |-> types, uris |-> uris, suites |-> suites, components |-> components,
     signed_by |-> PyNone, architectures |-> PyNone]

\* AptSource.model_validate: every type is "deb" or "deb-src", every uri is
\* a URL, kept as pydantic writes it; suites and components are any strings.
ModelValidate(types, uris, suites, components) ==
    IF /\ \A i \in DOMAIN types : types[i] \in ValidTypes
       /\ \A i \in DOMAIN uris : IsUrl(uris[i])
    THEN [exc |-> "none",
          source |-> AptSource(types, [i \in DOMAIN uris |-> UrlStr(uris[i])],
                               suites, components)]
    ELSE [exc |-> "ValidationError", source |-> AptSource(<<>>, <<>>, <<>>, <<>>)]

\* data.split(maxsplit=3)
MaxSplit == 3

\* AptSource._from_sources_list_line: unpacking anything but four parts
\* raises ValueError.
FromSourcesListLine(line) ==
    LET parts == Split(line, MaxSplit)
    IN  IF Len(parts) # MaxSplit + 1
        THEN [exc |-> "ValueError", source |-> AptSource(<<>>, <<>>, <<>>, <<>>)]
        ELSE ModelValidate(<<parts[1]>>, <<parts[2]>>, <<parts[3]>>,
                           Split(parts[4], -1))

\* not stripped or stripped.startswith("#")
SkippedIfBlank(stripped) == stripped = <<>>

Skipped(stripped) == stripped = <<>> \/ stripped[1] = "#"

\* AptSource.from_sources_list, over the lines that are left to read: the
\* first line that raises ends the reading.
RECURSIVE FromSourcesList(_)
FromSourcesList(f) ==
    IF f = <<>> THEN [status |-> "ok", list |-> <<>>]
    ELSE IF Skipped(Strip(Head(f))) THEN FromSourcesList(Tail(f))
    ELSE LET parsed == FromSourcesListLine(Strip(Head(f)))
             others == FromSourcesList(Tail(f))
         IN  IF parsed.exc # "none" THEN [status |-> parsed.exc, list |-> <<>>]
             ELSE IF others.status # "ok" THEN others
             ELSE [status |-> "ok", list |-> <<parsed.source>> \o others.list]

SourcesListLineTabbed(pkg_type, uri, suite, components) ==
    pkg_type \o <<"\t">> \o uri \o <<"\t">> \o suite \o <<"\t">> \o components

\* f"{pkg_type} {uri} {suite} {components}"
SourcesListLine(pkg_type, uri, suite, components) ==
    pkg_type \o <<" ">> \o uri \o <<" ">> \o suite \o <<" ">> \o components

Min(a, b) == IF a < b THEN a ELSE b

ToSourcesListZipped(self) ==
    LET components ==
            IF self.components # <<>> THEN Join(self.components) ELSE <<"main">>
    IN  [k \in 1..Min(Len(self.suites), Min(Len(self.uris), Len(self.types))) |->
            SourcesListLine(self.types[k], self.uris[k], self.suites[k], components)]

\* AptSource.to_sources_list: the suites are the outer loop, the types the
\* inner one.
ToSourcesList(self) ==
    LET components ==
            IF self.components # <<>> THEN Join(self.components) ELSE <<"main">>
        types == Len(self.types)
        uris == Len(self.uris)
    IN  [k \in 1..(Len(self.suites) * uris * types) |->
            SourcesListLine(self.types[((k - 1) % types) + 1],
                            self.uris[(((k - 1) \div types) % uris) + 1],
                            self.suites[((k - 1) \div (types * uris)) + 1],
                            components)]

\* s.partition(": "): what is before the first ": " and what is after it;
\* the string and "" when there is none.
Partition(s) ==
    LET found == {i \in 1..(Len(s) - 1) : s[i] = ":" /\ s[i + 1] = " "}
        first == CHOOSE i \in found : \A j \in found : i <= j
    IN  IF found = {} THEN [field |-> s, value |-> <<>>]
        ELSE [field |-> SubSeq(s, 1, first - 1),
              value |-> SubSeq(s, first + 2, Len(s))]

\* text.split("\n\n")
RECURSIVE SplitParagraphs(_)
SplitParagraphs(text) ==
    LET found == {i \in 1..(Len(text) - 1) : text[i] = "\n" /\ text[i + 1] = "\n"}
        first == CHOOSE i \in found : \A j \in found : i <= j
    IN  IF found = {} THEN <<text>>
        ELSE <<SubSeq(text, 1, first - 1)>>
             \o SplitParagraphs(SubSeq(text, first + 2, Len(text)))

\* paragraph.splitlines()
RECURSIVE SplitLines(_)
SplitLines(text) ==
    LET found == {i \in 1..Len(text) : text[i] = "\n"}
        first == CHOOSE i \in found : \A j \in found : i <= j
    IN  IF text = <<>> THEN <<>>
        ELSE IF found = {} THEN <<text>>
        ELSE <<SubSeq(text, 1, first - 1)>>
             \o SplitLines(SubSeq(text, first + 1, Len(text)))

\* The result of reading a paragraph: an exception, None or an AptSource.
Raised(exc) == [exc |-> exc, none |-> FALSE, source |-> AptSource(<<>>, <<>>, <<>>, <<>>)]
ReturnedNone == [exc |-> "none", none |-> TRUE, source |-> AptSource(<<>>, <<>>, <<>>, <<>>)]
ReturnedSource(repo) == [exc |-> "none", none |-> FALSE, source |-> repo]

\* str(pathlib.Path(value)): the empty path is "."
PathStr(value) == IF value = <<>> THEN <<".">> ELSE value

\* AptSource.model_validate(model_dict): types, uris, suites and components
\* are required; a key that is no field ("enabled") is ignored.
ModelValidateDict(model_dict) ==
    IF /\ {"types", "uris", "suites", "components"} \subseteq DOMAIN model_dict
       /\ \A i \in DOMAIN model_dict["types"].list :
             model_dict["types"].list[i] \in ValidTypes
       /\ \A i \in DOMAIN model_dict["uris"].list : IsUrl(model_dict["uris"].list[i])
    THEN ReturnedSource(
            [types |-> model_dict["types"].list,
             uris |-> [i \in DOMAIN model_dict["uris"].list |->
                          UrlStr(model_dict["uris"].list[i])],
             suites |-> model_dict["suites"].list,
             components |-> model_dict["components"].list,
             signed_by |-> IF "signed_by" \in DOMAIN model_dict
                           THEN PyStr(PathStr(model_dict["signed_by"].str))
                           ELSE PyNone,
             architectures |-> IF "architectures" \in DOMAIN model_dict
                               THEN model_dict["architectures"]
                               ELSE PyNone])
    ELSE Raised("ValidationError")

\* The loop of AptSource._from_deb822_paragraph over the lines that are
\* left, with the model_dict made so far.
RECURSIVE ModelDict(_, _)
ModelDict(paragraph, model_dict) ==
    LET stripped == Strip(Head(paragraph))
        field == Partition(stripped).field
        value == Partition(stripped).value
        With(key, val) == ModelDict(Tail(paragraph), (key :> val) @@ model_dict)
    IN  IF paragraph = <<>> THEN [exc |-> "none", model_dict |-> model_dict]
        ELSE IF stripped # <<>> /\ stripped[1] = "#"
        THEN ModelDict(Tail(paragraph), model_dict)
        ELSE CASE field = <<"Types">> -> With("types", PyList(Split(value, -1)))
               [] field = <<"URIs">> ->
                     IF Len(Split(value, -1)) > 1
                     THEN [exc |-> "ValueError", model_dict |-> model_dict]
                     ELSE With("uris", PyList(Split(value, -1)))
               [] field = <<"Suites">> -> With("suites", PyList(Split(value, -1)))
               [] field = <<"Components">> ->
                     With("components", PyList(Split(value, -1)))
               [] field = <<"Enabled">> -> With("enabled", PyStr(value))
               [] field = <<"Signed-By">> -> With("signed_by", PyStr(value))
               [] field = <<"Architectures">> ->
                     With("architectures", PyList(Split(value, -1)))
               [] OTHER -> ModelDict(Tail(paragraph), model_dict)

\* AptSource._from_deb822_paragraph
FromDeb822Paragraph(paragraph) ==
    LET made == ModelDict(paragraph, [k \in {} |-> PyNone])
    IN  IF made.exc # "none" THEN Raised(made.exc)
        ELSE IF DOMAIN made.model_dict = {} THEN ReturnedNone
        ELSE ModelValidateDict(made.model_dict)

\* AptSource.from_deb822: the first paragraph that raises ends the reading;
\* the paragraphs that gave None are left out.
FromDeb822(text) ==
    LET paragraphs == SplitParagraphs(text)
        repositories == [i \in DOMAIN paragraphs |->
                            FromDeb822Paragraph(SplitLines(paragraphs[i]))]
        raising == {i \in DOMAIN paragraphs : repositories[i].exc # "none"}
        IsRepo(repo) == ~repo.none
        kept == SelectSeq(repositories, IsRepo)
    IN  IF raising # {}
        THEN [status |-> repositories[CHOOSE i \in raising :
                                         \A j \in raising : i <= j].exc,
              list |-> <<>>]
        ELSE [status |-> "ok", list |-> [i \in DOMAIN kept |-> kept[i].source]]

\* AptSource.to_deb822: the lines of the template without their common
\* indentation, the line of signed_by empty when there is none, the
\* whitespace at the end replaced by one newline.
ToDeb822(self) ==
    LET signed_by_line ==
            IF self.signed_by # PyNone
            THEN <<"Signed-By", ":", " ">> \o self.signed_by.str
            ELSE <<>>
    IN  RStrip(<<"Types", ":", " ">>
               \o (IF self.types # <<>> THEN Join(self.types) ELSE <<"deb">>)
               \o <<"\n", "URIs", ":", " ">> \o Join(self.uris)
               \o <<"\n", "Suites", ":", " ">> \o Join(self.suites)
               \o <<"\n", "Components", ":", " ">>
               \o (IF self.components # <<>> THEN Join(self.components) ELSE <<"./">>)
               \o <<"\n">> \o signed_by_line \o <<"\n">>)
        \o <<"\n">>

\* No sources file is being read and no source is being written.
NotRead == [status |-> "none", list |-> <<>>]

NoSources ==
    /\ file = <<>>
    /\ sources = NotRead
    /\ source = AptSource(<<>>, <<>>, <<>>, <<>>)
    /\ lines = NotRead
    /\ reparsed = NotRead
    /\ sourcesText = <<>>
    /\ debSources = NotRead
    /\ debParagraph = <<>>

(***************************************************************************)
(* Old releases (defaults.py): _is_on_old_releases and use_old_releases.   *)
(***************************************************************************)
BAD_REQUEST == 400
INTERNAL_SERVER_ERROR == 500

\* What urlopen gives for one request: a response (error FALSE), or an
\* HTTPError (error TRUE), whose status is 0 when it carries none.
Responses ==
    { [error |-> FALSE, status |-> 200], [error |-> FALSE, status |-> 404],
      [error |-> TRUE, status |-> 0], [error |-> TRUE, status |-> 304],
      [error |-> TRUE, status |-> 400], [error |-> TRUE, status |-> 404],
      [error |-> TRUE, status |-> 499], [error |-> TRUE, status |-> 500],
      [error |-> TRUE, status |-> 503] }

\* No request was made yet.
NoResponse == [error |-> FALSE, status |-> 0]

\* A call of _is_on_old_releases with retries = n that has not asked yet.
Probe(http, n) ==
    [status |-> "running", http |-> http, retries |-> n, left |-> n, requests |-> 0,
     sleeps |-> 0, result |-> FALSE, exc |-> "", response |-> NoResponse]

NoProbe == [Probe(TRUE, 0) EXCEPT !.status = "none"]

\* One level of _is_on_old_releases: call is the call so far, whose retries
\* argument at this level is call.left, and response is what urlopen gives.
\* The level returns, raises, or sleeps and calls itself with one retry less.
IsOnOldReleasesRetrying4xx(call, response) ==
    IF ~call.http
    THEN [call EXCEPT !.status = "raised", !.exc = "RuntimeError"]
    ELSE LET asked == [call EXCEPT !.requests = @ + 1, !.response = response]
         IN  IF ~response.error
             THEN [asked EXCEPT !.status = "returned",
                                !.result = response.status < BAD_REQUEST]
             ELSE IF response.status = 0
             THEN [asked EXCEPT !.status = "raised", !.exc = "HTTPError"]
             ELSE IF call.left > 0
             THEN [asked EXCEPT !.sleeps = @ + 1, !.left = @ - 1]
             ELSE IF BAD_REQUEST <= response.status /\ response.status < INTERNAL_SERVER_ERROR
             THEN [asked EXCEPT !.status = "returned", !.result = FALSE]
             ELSE [asked EXCEPT !.status = "raised", !.exc = "HTTPError"]

IsOnOldReleases(call, response) ==
    IF ~call.http
    THEN [call EXCEPT !.status = "raised", !.exc = "RuntimeError"]
    ELSE LET asked == [call EXCEPT !.requests = @ + 1, !.response = response]
         IN  IF ~response.error
             THEN [asked EXCEPT !.status = "returned",
                                !.result = response.status < BAD_REQUEST]
             ELSE IF response.status = 0
             THEN [asked EXCEPT !.status = "raised", !.exc = "HTTPError"]
             ELSE IF BAD_REQUEST <= response.status /\ response.status < INTERNAL_SERVER_ERROR
             THEN [asked EXCEPT !.status = "returned", !.result = FALSE]
             ELSE IF call.left > 0
             THEN [asked EXCEPT !.sleeps = @ + 1, !.left = @ - 1]
             ELSE [asked EXCEPT !.status = "raised", !.exc = "HTTPError"]

\* old_releases_url, as pydantic.AnyUrl writes it.
OldReleasesUrl == UrlStr(<<"http", "://", "old-releases.ubuntu.com", "/", "ubuntu">>)

\* "\n".join(parts)
RECURSIVE JoinLines(_)
JoinLines(parts) ==
    IF parts = <<>> THEN <<>>
    ELSE IF Len(parts) = 1 THEN parts[1]
    ELSE parts[1] \o <<"\n">> \o JoinLines(Tail(parts))

\* A file of the root: missing, or present with its text.
Missing == [exists |-> FALSE, text |-> <<>>]
Present(text) == [exists |-> TRUE, text |-> text]

\* The outcome of use_old_releases: what it returned or raised, and the
\* files it leaves.
Moved(status, ret, exc, fs) == [status |-> status, ret |-> ret, exc |-> exc, fs |-> fs]

\* use_old_releases(root), where fs holds etc/apt/sources.list (list) and
\* etc/apt/sources.list.d/ubuntu.sources (deb), and answers[suite] is what
\* _is_on_old_releases gives for the suite, the same every time as the
\* function is cached: "found" (True), "absent" (False) or "error" (it
\* raises).  Iterating over the open file gives its lines, which are
\* stripped when they are read; every source read from sources.list writes
\* at least one line.
UseOldReleases(fs, answers) ==
    LET Only(results) == CHOOSE result \in results : TRUE
        Answer(suite) == IF suite \in DOMAIN answers THEN answers[suite] ELSE "absent"
        Answers(repo) == {Answer(repo.suites[i]) : i \in DOMAIN repo.suites}
        \* the loop over the sources and their suites, and the writing
        Update(uses_deb822, default_sources) ==
            LET needs_update ==
                    \E k \in DOMAIN default_sources : "found" \in Answers(default_sources[k])
                updated ==
                    [k \in DOMAIN default_sources |->
                        IF "found" \in Answers(default_sources[k])
                        THEN [default_sources[k] EXCEPT !.uris = <<OldReleasesUrl>>]
                        ELSE default_sources[k]]
                sources_paragraphs == [k \in DOMAIN updated |-> ToDeb822(updated[k])]
                sources_lines ==
                    [k \in DOMAIN updated |-> JoinLines(ToSourcesList(updated[k]))]
            IN  IF \E k \in DOMAIN default_sources : "error" \in Answers(default_sources[k])
                THEN Moved("raised", FALSE, "HTTPError", fs)
                ELSE IF ~needs_update THEN Moved("returned", FALSE, "", fs)
                ELSE IF uses_deb822
                THEN Moved("returned", TRUE, "",
                           [fs EXCEPT !.deb = Present(JoinLines(sources_paragraphs))])
                ELSE Moved("returned", TRUE, "",
                           [fs EXCEPT !.list = Present(JoinLines(sources_lines) \o <<"\n">>)])
        \* if not default_sources: the deb822 file is read
        Deb822(read) ==
            IF read.status # "ok" THEN Moved("raised", FALSE, read.status, fs)
            ELSE Update(TRUE, read.list)
        Listed(read) ==
            IF read.status # "ok" THEN Moved("raised", FALSE, read.status, fs)
            ELSE IF read.list # <<>> THEN Update(FALSE, read.list)
            ELSE IF ~fs.deb.exists THEN Moved("raised", FALSE, "FileNotFoundError", fs)
            ELSE Only({Deb822(read822) : read822 \in {FromDeb822(fs.deb.text)}})
    IN  IF ~fs.list.exists THEN Moved("raised", FALSE, "FileNotFoundError", fs)
        ELSE Only({Listed(read) : read \in {FromSourcesList(SplitLines(fs.list.text))}})

\* The suites the archive is asked about.
Suites == {<<"jammy">>, <<"jammy-updates">>, <<"noble">>}

\* No call of _is_on_old_releases or of use_old_releases is under way.
NoOldReleases ==
    /\ probe = NoProbe
    /\ etc = [list |-> Missing, deb |-> Missing]
    /\ site = [suite \in Suites |-> "absent"]
    /\ moved = [status |-> "none", ret |-> FALSE, exc |-> "", pre |-> etc]

(***************************************************************************)
(* The state machine.                                                      *)
(***************************************************************************)
\* The key assets directory holds at most one asset, named after FprA's last
\* characters; it holds FprA or another key.  No asset is named after FprB.
AssetMaterials == {<<FprA>>, <<FprB>>}

AssetName == GetKeyPath(FprA, TRUE, "key-assets", "").name

AssetConfigs ==
    {[n \in {} |-> <<>>]} \cup {[n \in {AssetName} |-> m] : m \in AssetMaterials}

NoFiles == [p \in {} |-> None]

Fs == [dirs |-> dirs, files |-> files, temps |-> temps]

\* The outcomes of the tool invocations of one operation, <<listed, first,
\* second, backup>>: an invocation that follows a failed one never happens,
\* so its outcome is left at "ok" (and backup at FALSE).
ToolRuns ==
    {run \in {"ok", "fail"} \X ToolOutcomes \X ToolOutcomes \X BOOLEAN :
        /\ run[2] # "ok" => run[3] = "ok"
        /\ (run[2] # "ok" \/ run[3] # "ok") => run[4] = FALSE}

\* The record of an operation.
Operation(op, key_id, keyring_path, key, key_server, repo, result) ==
    [op |-> op, key_id |-> key_id, keyring_path |-> keyring_path, key |-> key,
     key_server |-> key_server, repo |-> repo,
     ret |-> result.ret, exc |-> result.exc, events |-> result.events,
     pre |-> Fs, was_installed |-> key_id \in installed, rerun |-> FALSE]

\* No operation is running and the last one's result was taken.
Idle ==
    [op |-> "idle", key_id |-> NoKeyId, keyring_path |-> None, key |-> None,
     key_server |-> None, repo |-> None, ret |-> None, exc |-> NoExc,
     events |-> <<>>, pre |-> Fs, was_installed |-> FALSE, rerun |-> FALSE]

Init ==
    /\ keyringsPath \in Dirs
    /\ dirs \in {ds \in [Dirs -> {Absent, DirMode}] :
                    \A d \in Dirs \ {keyringsPath} : ds[d] = DirMode}
    /\ files = NoFiles
    /\ temps = NoFiles
    /\ assets \in AssetConfigs
    /\ installed = {}
    /\ last = Idle
    /\ NoRepository
    /\ NoSources
    /\ NoOldReleases

\* A call of AptKeyManager.is_key_installed.
DoIsKeyInstalled ==
    /\ last.op = "idle"
    /\ \E key_id \in KeyIds, keyring_path \in Dirs, listed \in {"ok", "fail"} :
      \E r \in {IsKeyInstalled(Fs, key_id, keyring_path, listed)} :
        /\ dirs' = r.fs.dirs
        /\ files' = r.fs.files
        /\ temps' = r.fs.temps
        /\ last' = Operation("is_key_installed", key_id, keyring_path, None,
                             None, None, r)
        /\ UNCHANGED <<keyringsPath, assets, installed>>
        /\ UNCHANGED <<repoVars, sourcesVars, oldVars>>

\* A call of AptKeyManager.install_key.
DoInstallKey ==
    /\ last.op = "idle"
    /\ \E key \in Materials, run \in ToolRuns :
      /\ run[1] = "ok"
      /\ run[2] \in {"ok", "fail"}
      /\ \E r \in {InstallKey(Fs, keyringsPath, key, run[2], run[3], run[4])} :
            /\ dirs' = r.fs.dirs
            /\ files' = r.fs.files
            /\ temps' = r.fs.temps
            /\ last' = Operation("install_key", NoKeyId, None, key, None, None, r)
            /\ UNCHANGED <<keyringsPath, assets, installed>>
            /\ UNCHANGED <<repoVars, sourcesVars, oldVars>>

\* A call of AptKeyManager.install_key_from_keyserver.
DoInstallKeyFromKeyserver ==
    /\ last.op = "idle"
    /\ \E key_id \in KeyIds, key_server \in {DefaultKeyServer, "key.server"},
       received \in ToolOutcomes :
      \E r \in {InstallKeyFromKeyserver(Fs, keyringsPath, key_id, key_server,
                                        received)} :
        /\ dirs' = r.fs.dirs
        /\ files' = r.fs.files
        /\ temps' = r.fs.temps
        /\ last' = Operation("install_key_from_keyserver", key_id, None, None,
                             key_server, None, r)
        /\ UNCHANGED <<keyringsPath, assets, installed>>
        /\ UNCHANGED <<repoVars, sourcesVars, oldVars>>

\* The key id install_package_repository_key works with, or None.
ResolvedKeyId(package_repo, resolved) ==
    IF package_repo.kind = "apt" THEN package_repo.key_id
    ELSE IF package_repo.kind = "ppa" /\ resolved
    THEN GetLaunchpadPpaKeyId(package_repo.ppa)
    ELSE NoKeyId

\* A call of AptKeyManager.install_package_repository_key.  `resolved` tells
\* whether the Launchpad lookup of a PPA entry succeeds.
DoInstallPackageRepositoryKey ==
    /\ last.op = "idle"
    /\ \E package_repo \in PackageRepositories, resolved \in BOOLEAN, run \in ToolRuns :
      /\ ~resolved => package_repo.kind = "ppa" /\ run = <<"ok", "ok", "ok", FALSE>>
      /\ \E r \in {InstallPackageRepositoryKey(Fs, keyringsPath, assets,
                        package_repo, resolved, run[1], run[2], run[3], run[4])} :
            /\ dirs' = r.fs.dirs
            /\ files' = r.fs.files
            /\ temps' = r.fs.temps
            /\ last' = Operation("install_package_repository_key",
                                 ResolvedKeyId(package_repo, resolved), None,
                                 None, None, package_repo, r)
            /\ installed' =
                 IF r.exc.type = "none" /\ r.ret = TRUE
                 THEN installed \cup {ResolvedKeyId(package_repo, resolved)}
                 ELSE installed
            /\ UNCHANGED <<keyringsPath, assets>>
            /\ UNCHANGED <<repoVars, sourcesVars, oldVars>>

\* The caller of install_package_repository_key, given a key-install error,
\* runs the same call again.
RetryInstallPackageRepositoryKey ==
    /\ last.op = "install_package_repository_key"
    /\ last.exc.type = "AptGPGKeyInstallError"
    /\ \E resolved \in BOOLEAN, run \in ToolRuns :
      /\ ~resolved => last.repo.kind = "ppa" /\ run = <<"ok", "ok", "ok", FALSE>>
      /\ \E r \in {InstallPackageRepositoryKey(Fs, keyringsPath, assets,
                        last.repo, resolved, run[1], run[2], run[3], run[4])} :
            /\ dirs' = r.fs.dirs
            /\ files' = r.fs.files
            /\ temps' = r.fs.temps
            /\ last' = [Operation("install_package_repository_key",
                                  ResolvedKeyId(last.repo, resolved), None,
                                  None, None, last.repo, r)
                          EXCEPT !.rerun = TRUE]
            /\ installed' =
                 IF r.exc.type = "none" /\ r.ret = TRUE
                 THEN installed \cup {ResolvedKeyId(last.repo, resolved)}
                 ELSE installed
            /\ UNCHANGED <<keyringsPath, assets>>
            /\ UNCHANGED <<repoVars, sourcesVars, oldVars>>

\* The caller takes the result of the operation; the next one can start.
Return ==
    /\ last.op # "idle"
    /\ last' = Idle
    /\ UNCHANGED <<keyringsPath, dirs, files, temps, assets, installed>>
    /\ UNCHANGED <<repoVars, sourcesVars, oldVars>>

\* Somebody removes a file of a keyrings directory.
EnvRemoveFile ==
    /\ last.op = "idle"
    /\ \E path \in DOMAIN files :
        /\ files' = [p \in DOMAIN files \ {path} |-> files[p]]
        /\ installed' =
             {k \in installed :
                \A d \in Dirs : GetKeyPath(k, FALSE, d, "craft-") # path}
        /\ last' = [Idle EXCEPT !.pre.files = files']
        /\ UNCHANGED <<keyringsPath, dirs, temps, assets>>
        /\ UNCHANGED <<repoVars, sourcesVars, oldVars>>

\* Somebody creates the keyrings directory.
EnvMkdir ==
    /\ last.op = "idle"
    /\ dirs[keyringsPath] = Absent
    /\ dirs' = [dirs EXCEPT ![keyringsPath] = DirMode]
    /\ last' = [Idle EXCEPT !.pre.dirs = dirs']
    /\ UNCHANGED <<keyringsPath, files, temps, assets, installed>>
    /\ UNCHANGED <<repoVars, sourcesVars, oldVars>>

Next ==
    \/ DoIsKeyInstalled
    \/ DoInstallKey
    \/ DoInstallKeyFromKeyserver
    \/ DoInstallPackageRepositoryKey
    \/ RetryInstallPackageRepositoryKey
    \/ Return
    \/ EnvRemoveFile
    \/ EnvMkdir

Spec == Init /\ [][Next]_vars

(***************************************************************************)
(* What the claims speak of.                                               *)
(***************************************************************************)
\* The events of the last operation of one kind, by their place.
EventsOf(ev, cmds) ==
    {i \in DOMAIN last.events : last.events[i].ev = ev /\ last.events[i].cmd \in cmds}

\* <keyrings dir>/craft-<last 8 characters of key_id, uppercased>.gpg
KeyringFileOf(dir, key_id) ==
    [dir |-> dir, name |-> <<"craft-">> \o Upper(LastChars(key_id)) \o <<".gpg">>]

\* A keyring file, as opposed to the backup gpg leaves beside one.
IsKeyringFile(path) == path.name[Len(path.name)] = ".gpg"

\* The last operation returned (raised nothing).
Returned == last.exc.type = "none"

\* The last operation imported a key or fetched one from a keyserver.
Installs == EventsOf("gpg", {"--import", "--recv-keys"})

\* What is_key_installed reported inside install_package_repository_key.
CheckedInstalled ==
    /\ last.op = "install_package_repository_key"
    /\ last.events # <<>>
    /\ last.events[1].arg[2]

CheckedNotInstalled ==
    /\ last.op = "install_package_repository_key"
    /\ last.events # <<>>
    /\ ~last.events[1].arg[2]

\* C1: once install_package_repository_key has returned true for a key id
\* and the key's keyring file (in the manager's keyrings directory, holding
\* the key) was not removed, a later call for the same key id returns false
\* and neither imports nor fetches, whatever the keyrings directory is.  (The
\* later call's list-keys, if any, is taken not to fail unexpectedly.)
C1_ReinstallIsNoOp ==
    ( /\ last.op = "install_package_repository_key"
      /\ last.was_installed
      /\ KeyringFileOf(keyringsPath, last.key_id) \in DOMAIN last.pre.files
      /\ last.key_id \in last.pre.files[KeyringFileOf(keyringsPath, last.key_id)].content
      /\ \A i \in EventsOf("gpg", {"--list-keys"}) :
            last.events[i].exit \in {0, ExpectedReturncode} )
    => ( /\ Returned
         /\ last.ret = FALSE
         /\ Installs = {} )

\* C2: when is_key_installed reports the key as installed,
\* install_package_repository_key returns false and calls neither install_key
\* nor install_key_from_keyserver; when it reports the key as not installed
\* and the install succeeds, it returns true.
C2_ReturnsNegationOfInstalledCheck ==
    /\ CheckedInstalled =>
          /\ Returned
          /\ last.ret = FALSE
          /\ EventsOf("call", {"install_key", "install_key_from_keyserver"}) = {}
          /\ Installs = {}
          /\ files = last.pre.files
    /\ (CheckedNotInstalled /\ Returned) =>
          /\ last.ret = TRUE
          /\ Cardinality(EventsOf("call", {"install_key",
                                           "install_key_from_keyserver"})) = 1

\* C2's case: an installed key was found and the call returned false.
C2_Witness ==
    /\ CheckedInstalled
    /\ Returned
    /\ last.ret = FALSE

\* C3: is_key_installed for a key whose keyring file does not exist returns
\* false, invokes no tool and leaves the filesystem as it was.
C3_MissingKeyringFailsClosed ==
    ( /\ last.op = "is_key_installed"
      /\ KeyringFileOf(last.keyring_path, last.key_id) \notin DOMAIN last.pre.files )
    => ( /\ Returned
         /\ last.ret = FALSE
         /\ EventsOf("gpg", {"--list-keys", "--show-keys", "--import",
                             "--recv-keys"}) = {}
         /\ files = last.pre.files
         /\ dirs = last.pre.dirs
         /\ KeyringFileOf(last.keyring_path, last.key_id) \notin DOMAIN files )

\* C3's case: the keyring file of the key is missing, in a directory that
\* exists and holds another keyring.
C3_Witness ==
    /\ last.op = "is_key_installed"
    /\ KeyringFileOf(last.keyring_path, last.key_id) \notin DOMAIN last.pre.files
    /\ last.pre.dirs[last.keyring_path] # Absent
    /\ \E p \in DOMAIN files : p.dir = last.keyring_path
    /\ last.ret = FALSE

\* C4: when the keyring file exists, is_key_installed lists the keys exactly
\* once and returns true iff the tool exits 0: exit code 2 and any other
\* nonzero exit code yield false, and nothing is raised.
C4_InstalledIffListKeysExitsZero ==
    ( /\ last.op = "is_key_installed"
      /\ KeyringFileOf(last.keyring_path, last.key_id) \in DOMAIN last.pre.files )
    => ( /\ Returned
         /\ Cardinality(EventsOf("gpg", {"--list-keys"})) = 1
         /\ EventsOf("gpg", {"--show-keys", "--import", "--recv-keys"}) = {}
         /\ \A i \in EventsOf("gpg", {"--list-keys"}) :
               /\ last.events[i].keyring
                    = KeyringFileOf(last.keyring_path, last.key_id)
               /\ last.events[i].arg = last.key_id
               /\ last.ret = (last.events[i].exit = 0) )

\* C4's case: the tool failed with an exit code other than 0 and 2.
C4_Witness ==
    /\ last.op = "is_key_installed"
    /\ KeyringFileOf(last.keyring_path, last.key_id) \in DOMAIN last.pre.files
    /\ \E i \in EventsOf("gpg", {"--list-keys"}) : last.events[i].exit \notin {0, 2}
    /\ last.ret = FALSE

\* C5: install_key with key material that resolves to no fingerprint or to
\* two or more raises AptGPGKeyInstallError naming the key material, imports
\* nothing and creates, changes and chmods no file.
C5_NotOneFingerprintIsAnError ==
    ( /\ last.op = "install_key"
      /\ \A i \in EventsOf("gpg", {"--show-keys"}) : last.events[i].exit = 0
      /\ Len(last.key) # 1 )
    => ( /\ last.exc.type = "AptGPGKeyInstallError"
         /\ last.exc.key = last.key
         /\ EventsOf("gpg", {"--import", "--recv-keys"}) = {}
         /\ EventsOf("chmod", {Mode644, Mode700}) = {}
         /\ files = last.pre.files
         /\ dirs = last.pre.dirs )

\* C5's case: key material with two keys, listed by the tool, while a keyring
\* file exists.
C5_Witness ==
    /\ last.op = "install_key"
    /\ Len(last.key) = 2
    /\ \E i \in EventsOf("gpg", {"--show-keys"}) : last.events[i].exit = 0
    /\ DOMAIN last.pre.files # {}
    /\ last.exc.type = "AptGPGKeyInstallError"

\* The fingerprint a successful install_key or install_key_from_keyserver
\* installed.
InstalledFingerprint ==
    IF last.op = "install_key" THEN last.key[1] ELSE last.key_id

\* C6: after a successful install_key (one fingerprint F) or
\* install_key_from_keyserver (key id F), the file
\* <keyrings dir>/craft-<last 8 characters of F, uppercased>.gpg exists with
\* mode 0644 and no other keyring file was written.
C6_InstallWritesTheKeyringFile ==
    ( /\ last.op \in {"install_key", "install_key_from_keyserver"}
      /\ Returned )
    => LET target == KeyringFileOf(keyringsPath, InstalledFingerprint)
       IN  /\ target \in DOMAIN files
           /\ files[target].mode = "0644"
           /\ \A p \in (DOMAIN files \cup DOMAIN last.pre.files) \ {target} :
                 IsKeyringFile(p) =>
                    /\ p \in DOMAIN files
                    /\ p \in DOMAIN last.pre.files
                    /\ files[p] = last.pre.files[p]

\* C6's case: a key id spelled in lower case was fetched from the keyserver
\* while another keyring file existed.
C6_Witness ==
    /\ last.op = "install_key_from_keyserver"
    /\ Returned
    /\ Upper(last.key_id) # last.key_id
    /\ \E p \in DOMAIN last.pre.files :
          p # KeyringFileOf(keyringsPath, last.key_id)

\* C7: when the keyrings directory does not exist, install_key creates it
\* with mode 0755 before it imports the key, and after a successful
\* install_key the keyrings directory exists.
C7_InstallKeyCreatesKeyringsDirectory ==
    /\ ( /\ last.op = "install_key"
         /\ last.pre.dirs[keyringsPath] = Absent
         /\ EventsOf("gpg", {"--import"}) # {} )
       => dirs[keyringsPath] = DirMode
    /\ (last.op = "install_key" /\ Returned) => dirs[keyringsPath] # Absent

\* C8: after install_key returned, the backup file beside the keyring (the
\* keyring's path with a trailing "~") does not exist.
C8_NoBackupFileAfterInstallKey ==
    (last.op = "install_key" /\ Returned)
    => BackupOf(KeyringFileOf(keyringsPath, last.key[1])) \notin DOMAIN files

\* <last 8 characters of key_id, uppercased>.asc
AssetFileOf(key_id) == Upper(LastChars(key_id)) \o <<".asc">>

\* C9: in install_package_repository_key, when the key is not installed and
\* the assets directory holds <last 8 characters of the key id,
\* uppercased>.asc, install_key is called once, with that file's content, and
\* the keyserver is not contacted; the keyserver is used only when there is
\* no such asset.
C9_AssetBeforeKeyserver ==
    CheckedNotInstalled =>
        /\ AssetFileOf(last.key_id) \in DOMAIN assets =>
              /\ Cardinality(EventsOf("call", {"install_key"})) = 1
              /\ \A i \in EventsOf("call", {"install_key"}) :
                    last.events[i].arg = assets[AssetFileOf(last.key_id)]
              /\ \A i \in EventsOf("gpg", {"--show-keys", "--import"}) :
                    last.events[i].arg = assets[AssetFileOf(last.key_id)]
              /\ EventsOf("call", {"install_key_from_keyserver"}) = {}
              /\ EventsOf("gpg", {"--recv-keys"}) = {}
        /\ ( EventsOf("call", {"install_key_from_keyserver"}) # {}
             \/ EventsOf("gpg", {"--recv-keys"}) # {} )
           => AssetFileOf(last.key_id) \notin DOMAIN assets

\* C9's case: the key was installed from its asset.
C9_Witness ==
    /\ CheckedNotInstalled
    /\ AssetFileOf(last.key_id) \in DOMAIN assets
    /\ Returned
    /\ last.ret = TRUE
    /\ EventsOf("gpg", {"--import"}) # {}

\* The key id and key server install_package_repository_key is to pass to
\* the keyserver installer for an entry.
ExpectedKeyId ==
    IF last.repo.kind = "apt" THEN last.repo.key_id
    ELSE GetLaunchpadPpaKeyId(last.repo.ppa)

ExpectedKeyServer ==
    IF last.repo.kind = "apt" /\ last.repo.key_server # None
    THEN last.repo.key_server
    ELSE "keyserver.ubuntu.com"

\* C10: when the key is not installed and no asset matches,
\* install_package_repository_key calls the keyserver installer exactly once,
\* with the resolved key id and the entry's key server if it has one,
\* otherwise keyserver.ubuntu.com (always so for a PPA entry).
C10_KeyserverFallback ==
    (CheckedNotInstalled /\ AssetFileOf(last.key_id) \notin DOMAIN assets) =>
        /\ Cardinality(EventsOf("call", {"install_key_from_keyserver"})) = 1
        /\ \A i \in EventsOf("call", {"install_key_from_keyserver"}) :
              last.events[i].arg = <<ExpectedKeyId, ExpectedKeyServer>>
        /\ Cardinality(EventsOf("gpg", {"--recv-keys"})) = 1
        /\ \A i \in EventsOf("gpg", {"--recv-keys"}) :
              last.events[i].arg = <<ExpectedKeyId, ExpectedKeyServer>>
        /\ EventsOf("call", {"install_key"}) = {}

\* C10's case: a PPA entry's key was fetched from the default keyserver.
C10_Witness ==
    /\ CheckedNotInstalled
    /\ last.repo.kind = "ppa"
    /\ Returned
    /\ last.ret = TRUE
    /\ EventsOf("gpg", {"--recv-keys"}) # {}

\* C11: whenever the tool exits nonzero in a fingerprint listing, an import or
\* a receive-keys, the operation raises AptGPGKeyInstallError with the tool's
\* output as its message, naming the key material (install_key) or the key id
\* and key server (install_key_from_keyserver); no operation ever raises the
\* raw CalledProcessError.
C11_ToolFailureIsAKeyInstallError ==
    /\ last.exc.type # "CalledProcessError"
    /\ \A i \in EventsOf("gpg", {"--show-keys", "--import", "--recv-keys"}) :
          last.events[i].exit # 0 =>
             /\ last.exc.type = "AptGPGKeyInstallError"
             /\ last.exc.message = ToolOutput
             /\ last.events[i].cmd = "--recv-keys" =>
                    /\ last.exc.key_id = last.events[i].arg[1]
                    /\ last.exc.key_server = last.events[i].arg[2]
             /\ last.events[i].cmd \in {"--show-keys", "--import"} =>
                    last.exc.key = last.events[i].arg

\* C11's case: install_key's import failed after the fingerprints were listed.
C11_Witness ==
    /\ last.op = "install_key"
    /\ \E i \in EventsOf("gpg", {"--import"}) : last.events[i].exit # 0
    /\ last.exc.type = "AptGPGKeyInstallError"
    /\ last.exc.message = ToolOutput

\* C12: after every operation, whether it returned or raised, no temporary
\* file or directory exists, and each one the operation created it removed
\* afterwards.
C12_TemporariesAreGone ==
    /\ DOMAIN temps = {}
    /\ \A i \in EventsOf("temp", {"create"}) :
          \E j \in EventsOf("temp", {"remove"}) :
             /\ j > i
             /\ last.events[j].keyring = last.events[i].keyring

\* C12's case: install_key_from_keyserver raised after the tool failed, having
\* created its temporary directory.
C12_Witness ==
    /\ last.op = "install_key_from_keyserver"
    /\ last.exc.type = "AptGPGKeyInstallError"
    /\ \E i \in EventsOf("temp", {"create"}) : last.events[i].keyring = TmpDir
    /\ \E i \in EventsOf("gpg", {"--recv-keys"}) : last.events[i].exit # 0

\* The re-run of an install_package_repository_key that had aborted with
\* AptGPGKeyInstallError, in which the key id resolved and every tool
\* invocation succeeded (list-keys answered 0 or "no such key").
RerunWithToolSucceeding ==
    /\ last.op = "install_package_repository_key"
    /\ last.rerun
    /\ last.key_id # NoKeyId
    /\ \A i \in EventsOf("gpg", {"--list-keys", "--show-keys", "--import",
                                  "--recv-keys"}) :
          \/ last.events[i].exit = 0
          \/ /\ last.events[i].cmd = "--list-keys"
             /\ last.events[i].exit = ExpectedReturncode

\* The key the run installs is in its keyring file, whose mode is 0644: the
\* asset's key in the file named after its fingerprint, or the key fetched
\* for the key id in the file named after the key id.
KeyInstalledInItsKeyring ==
    IF AssetFileOf(last.key_id) \in DOMAIN assets
    THEN LET fpr == assets[AssetFileOf(last.key_id)][1]
             target == KeyringFileOf(keyringsPath, fpr)
         IN  /\ target \in DOMAIN files
             /\ fpr \in files[target].content
             /\ files[target].mode = "0644"
    ELSE LET target == KeyringFileOf(keyringsPath, last.key_id)
         IN  /\ target \in DOMAIN files
             /\ \E f \in files[target].content : Matches(last.key_id, f)
             /\ files[target].mode = "0644"

WasInKeyring ==
    LET target == KeyringFileOf(keyringsPath, last.key_id)
    IN  /\ target \in DOMAIN last.pre.files
        /\ \E f \in last.pre.files[target].content : Matches(last.key_id, f)

NoManager ==
    /\ keyringsPath = KEYRINGS_PATH
    /\ dirs = [d \in Dirs |-> DirMode]
    /\ files = NoFiles
    /\ temps = NoFiles
    /\ assets = [n \in {} |-> <<>>]
    /\ installed = {}
    /\ last = Idle

\* A mapping with the items whose value is given.
DictOf(items) ==
    PyDict([k \in {k \in DOMAIN items : items[k] # PyMissing} |-> items[k]])

\* A key id of 40 upper-case hexadecimal digits.
GoodKeyId == [i \in 1..KeyIdLength |-> IF i % 2 = 1 THEN "9" ELSE "F"]

\* The values given for the fields.  Key ids: two of 40 upper-case
\* hexadecimal digits; one of 39 and one of 41; one with a lower-case digit
\* and one with a letter that is no digit; the empty string; an int.
\* Priorities: None, ints, the three literals, strings of digits and another
\* string.
Inputs ==
    [key_id |->
        { PyStr(GoodKeyId),
          PyStr([i \in 1..KeyIdLength |-> "0"]),
          PyStr([i \in 1..(KeyIdLength - 1) |-> "A"]),
          PyStr([i \in 1..(KeyIdLength + 1) |-> "A"]),
          PyStr([GoodKeyId EXCEPT ![KeyIdLength] = "f"]),
          PyStr([GoodKeyId EXCEPT ![1] = "G"]),
          PyStr(<<>>),
          PyInt(KeyIdLength),
          PyMissing },
     priority |->
        { PyMissing, PyNone, PyInt(0), PyInt(5), PyInt(-1),
          PyStr(<<"a", "l", "w", "a", "y", "s">>),
          PyStr(<<"p", "r", "e", "f", "e", "r">>),
          PyStr(<<"d", "e", "f", "e", "r">>), PyStr(<<"0">>), PyStr(<<"1", "0">>),
          PyStr(<<"A", "L", "W", "A", "Y", "S">>) },
     url |->
        { PyStr(<<"http", "://", "archive", "/", "ubuntu", "/">>),
          PyStr(<<"http", "://", "archive">>) },
     path |-> {PyMissing, PyStr(<<>>), PyStr(<<"dir">>)},
     suites |->
        { PyMissing, PyNone, PyList(<<>>), PyList(<< <<"jammy">> >>),
          PyList(<< <<"jammy">>, <<"updates", "/">> >>) },
     components |->
        {PyMissing, PyList(<<>>), PyList(<< <<"main">>, <<"universe">> >>)},
     key_server |-> {PyMissing, PyStr(<<"key.server">>)},
     ppa |-> {PyStr(<<"test", "/", "ppa">>), PyStr(<<>>)},
     cloud |-> {PyStr(<<"antelope">>), PyStr(<<>>)},
     pocket |-> {PyMissing, PyStr(<<"proposed">>), PyStr(<<"bogus">>)}]

\* The keyword arguments of a PackageRepositoryApt.
AptItems(priority, url, key_name, key_id, path, suites, components, server_name, key_server) ==
    (Field.type :> PyStr(<<"apt">>)) @@ (Field.priority :> priority)
    @@ (Field.url :> url) @@ (key_name :> key_id) @@ (Field.path :> path)
    @@ (Field.suites :> suites) @@ (Field.components :> components)
    @@ (server_name :> key_server)

\* The mappings given.  Apt entries: every combination of priority, url,
\* path, suites and components with a good key id; and every key id and key
\* server, under the field's alias and under its name, with and without
\* architectures and formats.  PPA and UCA entries.  An entry with a key that
\* is no field, one without a type, and something that is no mapping.
DataInputs ==
    { DictOf(AptItems(p, u, AliasGenerator(Field.key_id), PyStr(GoodKeyId), path, s,
                      c, Field.key_server, PyMissing)) :
        p \in Inputs.priority, u \in Inputs.url, path \in Inputs.path,
        s \in Inputs.suites, c \in Inputs.components }
    \cup
    { DictOf(AptItems(PyMissing, PyStr(<<"http", "://", "archive", "/", "ubuntu">>),
                      kn, k, PyMissing, PyList(<< <<"jammy">> >>),
                      PyList(<< <<"main">> >>), sn, ks)
             @@ (Field.architectures :> a) @@ (Field.formats :> a)) :
        kn \in {Field.key_id, AliasGenerator(Field.key_id)}, k \in Inputs.key_id,
        sn \in {Field.key_server, AliasGenerator(Field.key_server)},
        ks \in Inputs.key_server,
        a \in {PyMissing, PyList(<< <<"deb">> >>)} }
    \cup
    { DictOf((Field.type :> PyStr(<<"apt">>)) @@ (Field.priority :> p)
             @@ (Field.ppa :> ppa)) :
        p \in Inputs.priority, ppa \in Inputs.ppa }
    \cup
    { DictOf((Field.type :> PyStr(<<"apt">>)) @@ (Field.priority :> p)
             @@ (Field.cloud :> cloud) @@ (Field.pocket :> pocket)) :
        p \in Inputs.priority, cloud \in Inputs.cloud, pocket \in Inputs.pocket }
    \cup
    { DictOf((Field.type :> PyStr(<<"apt">>))
             @@ (Field.ppa :> PyStr(<<"test", "/", "ppa">>))
             @@ (<<"bogus">> :> PyInt(1))),
      DictOf((Field.ppa :> PyStr(<<"test", "/", "ppa">>))),
      PyList(<< <<"apt">> >>) }

RepoInit ==
    /\ data \in DataInputs
    /\ entry = NotBuilt
    /\ dumped = PyMissing
    /\ again = NotAgain
    /\ redumped = PyMissing
    /\ NoManager
    /\ NoSources
    /\ NoOldReleases

\* PackageRepository.unmarshal(data)
DoUnmarshal ==
    /\ entry = NotBuilt
    /\ entry' = Unmarshal(data)
    /\ UNCHANGED <<data, dumped, again, redumped, managerVars, sourcesVars, oldVars>>

\* entry.marshal()
DoMarshal ==
    /\ entry.status = "ok"
    /\ dumped = PyMissing
    /\ dumped' = Marshal(entry)
    /\ UNCHANGED <<data, entry, again, redumped, managerVars, sourcesVars, oldVars>>

\* PackageRepository.unmarshal of what marshal() gave, as it is or with the
\* keys spelled as the fields' names.
DoUnmarshalAgain ==
    /\ dumped # PyMissing
    /\ again = NotAgain
    /\ \E by_name \in BOOLEAN :
          again' = [by_name |-> by_name,
                    object |-> Unmarshal(IF by_name THEN ByName(dumped) ELSE dumped)]
    /\ UNCHANGED <<data, entry, dumped, redumped, managerVars, sourcesVars, oldVars>>

\* The marshal() of the object that was unmarshalled.
DoMarshalAgain ==
    /\ again.object.status = "ok"
    /\ redumped = PyMissing
    /\ redumped' = Marshal(again.object)
    /\ UNCHANGED <<data, entry, dumped, again, managerVars, sourcesVars, oldVars>>

RepoNext ==
    \/ DoUnmarshal
    \/ DoMarshal
    \/ DoUnmarshalAgain
    \/ DoMarshalAgain

RepoSpec == RepoInit /\ [][RepoNext]_vars

\* The value given for a field, and whether it is a non-empty one.
Given(name) == FieldInput(data.items, name)

GivenNonEmpty(name) == Truthy(Given(name))

\* An attempt to build an entry of the class was made.
Attempted(cls) == entry.status # "none" /\ entry.cls = cls

\* C14: for every class and every priority given, an entry with priority 0
\* is rejected, 'always', 'prefer' and 'defer' are stored as 1000, 990 and
\* 100, and the priority of every entry that was built is None or a nonzero
\* int.
C14_PriorityIsAbsentOrNonzero ==
    /\ (entry.status # "none" /\ Given(Field.priority) = PyInt(0))
          => entry.status = "ValidationError"
    /\ entry.status = "ok" =>
          /\ Given(Field.priority) = PyStr(<<"a", "l", "w", "a", "y", "s">>)
                => entry.fields[Field.priority] = PyInt(1000)
          /\ Given(Field.priority) = PyStr(<<"p", "r", "e", "f", "e", "r">>)
                => entry.fields[Field.priority] = PyInt(990)
          /\ Given(Field.priority) = PyStr(<<"d", "e", "f", "e", "r">>)
                => entry.fields[Field.priority] = PyInt(100)
          /\ \/ entry.fields[Field.priority] = PyNone
             \/ /\ entry.fields[Field.priority].tag = "int"
                /\ entry.fields[Field.priority].int # 0

\* An error of the rejection names the URL that was given.
NamesTheUrl ==
    \E i \in DOMAIN entry.errors :
        entry.errors[i].url \in {Given(Field.url), ValidateUrl(Given(Field.url)).value}

NonEmptyList(value) == value.tag = "list" /\ value.list # <<>>

\* C16: in every Apt entry that was built, suites and components are both
\* None or both non-empty lists; the path is None or a non-empty string, and
\* then suites and components are None; and no suite ends with "/".
C16_BuiltAptEntryIsWellFormed ==
    (entry.status = "ok" /\ entry.cls = "PackageRepositoryApt") =>
        LET path == entry.fields[Field.path]
            suites == entry.fields[Field.suites]
            components == entry.fields[Field.components]
        IN  /\ \/ suites = PyNone /\ components = PyNone
               \/ NonEmptyList(suites) /\ NonEmptyList(components)
            /\ path # PyNone =>
                  /\ path.tag = "str" /\ path.str # <<>>
                  /\ suites = PyNone
                  /\ components = PyNone
            /\ \A i \in DOMAIN suites.list :
                  suites.list[i] = <<>> \/ suites.list[i][Len(suites.list[i])] # "/"

\* The key id given is a string of exactly 40 characters, each of 0-9, A-F.
GoodKeyIdGiven ==
    /\ Given(Field.key_id).tag = "str"
    /\ Len(Given(Field.key_id).str) = 40
    /\ \A i \in DOMAIN Given(Field.key_id).str :
          Given(Field.key_id).str[i] \in HexUpper

\* C17: an Apt entry is built only from a key id of exactly 40 characters,
\* each of 0-9 or A-F; and such a key id is never what an entry is rejected
\* for.
C17_KeyIdIsFortyUpperHex ==
    Attempted("PackageRepositoryApt") =>
        /\ entry.status = "ok" => GoodKeyIdGiven
        /\ GoodKeyIdGiven =>
              \A i \in DOMAIN entry.errors : entry.errors[i].loc # Field.key_id
        /\ (~GoodKeyIdGiven /\ entry.status = "ValidationError"
            /\ BeforeValidators(entry.cls, data.items) = <<>>)
              => \E i \in DOMAIN entry.errors : entry.errors[i].loc = Field.key_id

\* C17's case: a key id of 40 digits with one in lower case was rejected,
\* nothing else being wrong.
C17_Witness ==
    /\ Attempted("PackageRepositoryApt")
    /\ Given(Field.key_id).tag = "str"
    /\ Len(Given(Field.key_id).str) = 40
    /\ \E i \in DOMAIN Given(Field.key_id).str : Given(Field.key_id).str[i] = "f"
    /\ entry.status = "ValidationError"
    /\ Len(entry.errors) = 1

\* C18: marshal() gives the fields that are not None under their hyphenated
\* names; unmarshalling that, with hyphenated or with underscore names, gives
\* an entry equal to the first one; and marshalling this one gives the same
\* mapping again.
C18_MarshalUnmarshalRoundTrip ==
    /\ dumped # PyMissing =>
          /\ \A k \in DOMAIN dumped.items :
                /\ \A i \in DOMAIN k : k[i] # "_"
                /\ dumped.items[k] # PyNone
          /\ \A f \in DOMAIN entry.fields :
                IF entry.fields[f] = PyNone
                THEN \A k \in DOMAIN dumped.items : k \notin {f, AliasGenerator(f)}
                ELSE /\ AliasGenerator(f) \in DOMAIN dumped.items
                     /\ dumped.items[AliasGenerator(f)] = entry.fields[f]
    /\ again # NotAgain => again.object = entry
    /\ redumped # PyMissing => redumped = dumped

(***************************************************************************)
(* Default sources: reading a sources.list file and writing the lines of   *)
(* a source.                                                               *)
(***************************************************************************)
MaxLines == 3
MaxItems == 2

\* The lines of the files: sources with one and with several components,
\* with tabs and runs of spaces, with whitespace around, with a URL without
\* a path and with a "#" among the components; comments, also after
\* whitespace and without a space after the "#"; blank lines; a line of
\* three words; a line with a type and one with a uri that are not valid.
LineInputs ==
    { <<"deb", " ", "http", "://", "archive", "/", "ubuntu", " ", "jammy", " ",
        "main", " ", "universe">>,
      <<"deb-src", "\t", "http", "://", "archive", " ", " ", "jammy-updates",
        " ", "main">>,
      <<" ", "deb", " ", "http", "://", "archive", "/", "ubuntu", " ", "jammy",
        " ", "main", " ", "#", " ", "restricted", " ">>,
      <<"#", " ", "deb", " ", "http", "://", "archive", "/", "ubuntu", " ",
        "jammy", " ", "main">>,
      <<" ", "#", "deb", " ", "http", "://", "archive", " ", "jammy", " ",
        "main">>,
      <<>>,
      <<" ", "\t">>,
      <<"deb", " ", "http", "://", "archive", "/", "ubuntu", " ", "jammy">>,
      <<"rpm", " ", "http", "://", "archive", "/", "ubuntu", " ", "jammy", " ",
        "main">>,
      <<"deb", " ", "[arch=amd64]", " ", "http", "://", "archive", " ", "jammy",
        " ", "main">> }

\* The files: up to MaxLines lines, each with its newline.
Files ==
    UNION { [1..n -> {line \o <<"\n">> : line \in LineInputs}] : n \in 0..MaxLines }

\* The sources: up to MaxItems types, uris, suites and components.
SourceInputs ==
    LET Upto(pool) == {SubSeq(pool, 1, n) : n \in 0..MaxItems}
    IN  { AptSource(t, u, s, c) :
            t \in Upto(<<<<"deb">>, <<"deb-src">>, <<"deb">>>>),
            u \in Upto(<<<<"http", "://", "archive", "/", "ubuntu">>,
                         <<"http", "://", "ports", "/">>,
                         <<"https", "://", "mirror", "/">>>>),
            s \in Upto(<<<<"jammy">>, <<"jammy-updates">>, <<"jammy-security">>>>),
            c \in Upto(<<<<"main">>, <<"universe">>, <<"restricted">>>>) }

\* The texts of the deb822 files.  The first paragraph: each field absent,
\* with one value or with several, Types and URIs also with a value that is
\* not valid and as a line of the field's name alone; with and without a
\* comment, an Enabled field and a field that is not known.  Then nothing,
\* or a blank line and a second paragraph: a source, a source of two uris,
\* or a comment.
TextInputs ==
    LET Line(field, value) == <<field, ":", " ">> \o value \o <<"\n">>
        archive == <<"http", "://", "archive", "/", "ubuntu">>
        ports == <<"http", "://", "ports", "/">>
        second(uris) ==
            Line("Types", <<"deb">>) \o Line("URIs", uris)
            \o Line("Suites", <<"noble">>) \o Line("Components", <<"main">>)
    IN  { t \o u \o s \o c \o k \o a \o x \o more :
            t \in { <<>>, Line("Types", <<"deb">>), Line("Types", <<"deb", " ", "deb-src">>),
                    Line("Types", <<"rpm">>), <<"Types", "\n">> },
            u \in { <<>>, Line("URIs", archive), Line("URIs", <<"http", "://", "archive">>),
                    Line("URIs", archive \o <<" ">> \o ports), <<"URIs", "\n">> },
            s \in { Line("Suites", <<"jammy">>),
                    Line("Suites", <<"jammy", " ", "jammy-updates">>) },
            c \in { <<>>, Line("Components", <<"main">>),
                    Line("Components", <<"main", " ", "universe">>) },
            k \in { <<>>, Line("Signed-By", <<"/usr/share/keyrings/archive.gpg">>) },
            a \in { <<>>, Line("Architectures", <<"amd64", " ", "arm64">>) },
            x \in { <<>>, <<" ", "#", " ", "comment", "\n">> \o Line("Enabled", <<"yes">>)
                          \o Line("X-Repolib-Name", <<"Ubuntu">>) },
            more \in { <<>>, <<"\n">> \o second(archive),
                       <<"\n">> \o second(archive \o <<" ">> \o ports),
                       <<"\n", "#", " ", "comment", "\n">> } }

\* A sources.list file to read, a source to write, or a deb822 file to read.
SourcesInit ==
    /\ NoManager
    /\ NoRepository
    /\ NoOldReleases
    /\ reparsed = NotRead
    /\ debParagraph = <<>>
    /\ \/ /\ file \in Files
          /\ sources = [status |-> "unread", list |-> <<>>]
          /\ source = AptSource(<<>>, <<>>, <<>>, <<>>)
          /\ lines = NotRead
          /\ sourcesText = <<>>
          /\ debSources = NotRead
       \/ /\ file = <<>>
          /\ sources = NotRead
          /\ source \in SourceInputs
          /\ lines = [status |-> "unwritten", list |-> <<>>]
          /\ sourcesText = <<>>
          /\ debSources = NotRead
       \/ /\ file = <<>>
          /\ sources = NotRead
          /\ source = AptSource(<<>>, <<>>, <<>>, <<>>)
          /\ lines = NotRead
          /\ sourcesText \in TextInputs
          /\ debSources = [status |-> "unread", list |-> <<>>]

DoFromSourcesList ==
    /\ sources.status = "unread"
    /\ sources' = FromSourcesList(file)
    /\ UNCHANGED <<file, source, lines, reparsed, debVars, managerVars, repoVars, oldVars>>

DoToSourcesList ==
    /\ lines.status = "unwritten"
    /\ lines' = [status |-> "ok", list |-> ToSourcesList(source)]
    /\ UNCHANGED <<file, sources, source, reparsed, debVars, managerVars, repoVars, oldVars>>

\* to_sources_list() of one of the entries that were read.
DoToSourcesListOfParsed ==
    /\ sources.status = "ok"
    /\ lines.status = "none"
    /\ \E i \in DOMAIN sources.list :
          /\ source' = sources.list[i]
          /\ lines' = [status |-> "ok", list |-> ToSourcesList(sources.list[i])]
    /\ UNCHANGED <<file, sources, reparsed, debVars, managerVars, repoVars, oldVars>>

\* from_sources_list() of a file that holds the lines that were written.
DoFromSourcesListAgain ==
    /\ lines.status = "ok"
    /\ reparsed.status = "none"
    /\ reparsed' = FromSourcesList([i \in DOMAIN lines.list |-> lines.list[i] \o <<"\n">>])
    /\ UNCHANGED <<file, sources, source, lines, debVars, managerVars, repoVars, oldVars>>

DoFromDeb822 ==
    /\ debSources.status = "unread"
    /\ debSources' = FromDeb822(sourcesText)
    /\ UNCHANGED <<file, sources, source, lines, reparsed>>
    /\ UNCHANGED <<sourcesText, debParagraph>>
    /\ UNCHANGED <<managerVars, repoVars, oldVars>>

\* to_deb822() of one of the entries that were read.
DoToDeb822 ==
    /\ debSources.status = "ok"
    /\ debParagraph = <<>>
    /\ \E i \in DOMAIN debSources.list :
          /\ source' = debSources.list[i]
          /\ debParagraph' = ToDeb822(debSources.list[i])
    /\ UNCHANGED <<file, sources, lines, reparsed, sourcesText, debSources>>
    /\ UNCHANGED <<managerVars, repoVars, oldVars>>

\* from_deb822() of a file that holds the paragraph that was written.
DoFromDeb822Again ==
    /\ debParagraph # <<>>
    /\ reparsed.status = "none"
    /\ reparsed' = FromDeb822(debParagraph)
    /\ UNCHANGED <<file, sources, source, lines, debVars>>
    /\ UNCHANGED <<managerVars, repoVars, oldVars>>

SourcesNext ==
    \/ DoFromSourcesList
    \/ DoToSourcesList
    \/ DoToSourcesListOfParsed
    \/ DoFromSourcesListAgain
    \/ DoFromDeb822
    \/ DoToDeb822
    \/ DoFromDeb822Again

SourcesSpec == SourcesInit /\ [][SourcesNext]_vars

\* The lines of the file that are not blank and are no comments, without the
\* whitespace around them.
IsContent(line) == Strip(line) # <<>> /\ Strip(line)[1] # "#"

ContentLines ==
    [i \in DOMAIN SelectSeq(file, IsContent) |-> Strip(SelectSeq(file, IsContent)[i])]

\* The whitespace-separated tokens of a line.
Tokens(line) == Split(line, -1)

\* C19: from_sources_list returns one entry for every line that is not blank
\* and no comment, in the order of the file, each with the line's first
\* three tokens as its one type, one uri and one suite and the tokens that
\* are left as its components; a line of fewer than four tokens makes the
\* whole reading fail; and a file whose lines all have four tokens, a valid
\* type and a valid uri is read.
C19_OneEntryPerLine ==
    sources.status \notin {"none", "unread"} =>
        /\ (\E i \in DOMAIN ContentLines : Len(Tokens(ContentLines[i])) < 4)
              => /\ sources.status \in {"ValueError", "ValidationError"}
                 /\ sources.list = <<>>
        /\ sources.status = "ok" =>
              /\ Len(sources.list) = Len(ContentLines)
              /\ \A i \in DOMAIN ContentLines :
                    /\ sources.list[i].types = <<Tokens(ContentLines[i])[1]>>
                    /\ sources.list[i].uris = <<UrlStr(Tokens(ContentLines[i])[2])>>
                    /\ sources.list[i].suites = <<Tokens(ContentLines[i])[3]>>
                    /\ sources.list[i].components =
                          SubSeq(Tokens(ContentLines[i]), 4,
                                 Len(Tokens(ContentLines[i])))
        /\ (\A i \in DOMAIN ContentLines :
                /\ Len(Tokens(ContentLines[i])) >= 4
                /\ Tokens(ContentLines[i])[1] \in ValidTypes
                /\ IsUrl(Tokens(ContentLines[i])[2]))
              => sources.status = "ok"

\* C19's case: a file of a comment and two sources was read, the second
\* source with two components.
C19_Witness ==
    /\ sources.status = "ok"
    /\ Len(file) = 3
    /\ Skipped(Strip(file[1]))
    /\ Strip(file[1]) # <<>>
    /\ Len(sources.list) = 2
    /\ sources.list[1].types # sources.list[2].types
    /\ Len(sources.list[2].components) = 2

\* The combinations of a type, a uri and a suite of the source, by their
\* places in the lists.
Combinations ==
    (DOMAIN source.types) \X (DOMAIN source.uris) \X (DOMAIN source.suites)

\* The line of a combination: the components joined by single spaces, or
\* "main" when there is none.
LineOf(c) ==
    source.types[c[1]] \o <<" ">> \o source.uris[c[2]] \o <<" ">>
    \o source.suites[c[3]] \o <<" ">>
    \o (IF source.components = <<>> THEN <<"main">> ELSE Join(source.components))

\* C20: to_sources_list gives |types| * |uris| * |suites| lines, and the
\* line '<type> <uri> <suite> <components>' of every combination as many
\* times as there are combinations with that line: none is missing and
\* none is there twice.
C20_OneLinePerCombination ==
    lines.status = "ok" =>
        /\ Len(lines.list) = Len(source.types) * Len(source.uris) * Len(source.suites)
        /\ \A c \in Combinations :
              Cardinality({i \in DOMAIN lines.list : lines.list[i] = LineOf(c)})
                 = Cardinality({d \in Combinations : LineOf(d) = LineOf(c)})

\* C20's case: a source of two types, two uris, two suites and two
\* components was written as eight different lines.
C20_Witness ==
    /\ lines.status = "ok"
    /\ Len(source.types) = 2
    /\ Len(source.uris) = 2
    /\ Len(source.suites) = 2
    /\ Len(source.components) = 2
    /\ Len(lines.list) = 8
    /\ Cardinality({lines.list[i] : i \in DOMAIN lines.list}) = 8

\* The lines of the file as splitlines() gives them.
FileLines == {SubSeq(file[i], 1, Len(file[i]) - 1) : i \in DOMAIN file}

\* C21 as stated: the one line written for an entry that was read is one of
\* the lines of the file, and reading that line gives the entry again.
C21_WrittenLineIsALineOfTheFile ==
    (sources.status = "ok" /\ lines.status = "ok") =>
        /\ Len(lines.list) = 1
        /\ lines.list[1] \in FileLines
        /\ reparsed.status # "none" => reparsed = [status |-> "ok", list |-> <<source>>]

\* A line with single spaces between its tokens and its uri as pydantic
\* writes it.
Canonical(line) ==
    Join(<<Tokens(line)[1], UrlStr(Tokens(line)[2])>>
         \o SubSeq(Tokens(line), 3, Len(Tokens(line))))

\* C21: the one line written for an entry that was read is the canonical
\* form of one of the lines of the file (that line itself when it is
\* written without whitespace around it, with single spaces between its
\* tokens and with a uri that has a path), and reading the written line
\* gives the entry again.
C21_OneLineRoundTrip ==
    (sources.status = "ok" /\ lines.status = "ok") =>
        /\ Len(lines.list) = 1
        /\ \E i \in DOMAIN ContentLines : lines.list[1] = Canonical(ContentLines[i])
        /\ \A line \in FileLines :
              ( /\ IsContent(line)
                /\ line = Canonical(line)
                /\ <<source>> = FromSourcesList(<<line>>).list )
              => lines.list[1] = line
        /\ reparsed.status # "none" => reparsed = [status |-> "ok", list |-> <<source>>]

\* C21's case: a line written with a tab and a uri without a path was read,
\* written with single spaces, and read again as the same entry.
C21_Witness ==
    /\ sources.status = "ok"
    /\ lines.status = "ok"
    /\ lines.list[1] \notin FileLines
    /\ reparsed = [status |-> "ok", list |-> <<source>>]
    /\ source.types = <<<<"deb-src">>>>

\* C22: for every entry that reading a deb822 file gave, reading the
\* paragraph that to_deb822() writes for it gives exactly that entry.
C22_Deb822RoundTrip ==
    (debSources.status = "ok" /\ debParagraph # <<>> /\ reparsed.status # "none")
        => reparsed = [status |-> "ok", list |-> <<source>>]

\* The values of the URIs fields of the paragraphs of the text.
UrisValues ==
    LET paragraphs == SplitParagraphs(sourcesText)
        Lines(i) == SplitLines(paragraphs[i])
    IN  UNION { { Split(Partition(Strip(Lines(i)[j])).value, -1) :
                    j \in {j \in DOMAIN Lines(i) :
                              Partition(Strip(Lines(i)[j])).field = <<"URIs">>} } :
                i \in DOMAIN paragraphs }

\* C23: from_deb822 fails when the URIs field of a paragraph holds more
\* than one value, and every entry it returns has exactly one uri.
C23_ExactlyOneUri ==
    debSources.status \notin {"none", "unread"} =>
        /\ (\E uris \in UrisValues : Len(uris) > 1)
              => /\ debSources.status \in {"ValueError", "ValidationError"}
                 /\ debSources.list = <<>>
        /\ \A i \in DOMAIN debSources.list : Len(debSources.list[i].uris) = 1

\* The places of the events of the last operation that are such an event.
Places(event) == {i \in DOMAIN last.events : last.events[i] = event}

\* The keyring file install_key_from_keyserver was called for.
KeyserverKeyring == GetKeyPath(last.key_id, FALSE, keyringsPath, "craft-")

\* C24: install_key_from_keyserver restricts its temporary directory to
\* 0700 before it invokes the tool, invokes the tool exactly once, and sets
\* the mode of the keyring file to 0644 only after the tool succeeded; when
\* the tool fails it changes no mode of the keyring file.
C24_KeyserverStepsInOrder ==
    last.op = "install_key_from_keyserver" =>
        LET tool == {i \in DOMAIN last.events : last.events[i].ev = "gpg"}
            chmods == {i \in DOMAIN last.events :
                          /\ last.events[i].ev = "chmod"
                          /\ last.events[i].keyring = KeyserverKeyring}
        IN  /\ Cardinality(tool) = 1
            /\ \A t \in tool :
                  /\ last.events[t].cmd = "--recv-keys"
                  /\ \E c \in Places(ChmodEvent(TmpDir, Mode700)) : c < t
                  /\ \A c \in chmods : c > t /\ last.events[t].exit = 0
                  /\ last.events[t].exit = 0
                        => chmods \cap Places(ChmodEvent(KeyserverKeyring, Mode644)) # {}
                  /\ last.events[t].exit # 0 =>
                        /\ last.exc.type = "AptGPGKeyInstallError"
                        /\ KeyserverKeyring \in DOMAIN last.pre.files
                              => files[KeyserverKeyring].mode
                                    = last.pre.files[KeyserverKeyring].mode

\* C24's cases: the tool succeeded and the keyring file, which it created
\* with its own mode, was set to 0644 afterwards.
C24_Witness ==
    /\ last.op = "install_key_from_keyserver"
    /\ last.exc = NoExc
    /\ KeyserverKeyring \notin DOMAIN last.pre.files
    /\ files[KeyserverKeyring].mode = Mode644
    /\ Len(last.events) = 5
    /\ last.events[3].ev = "gpg"
    /\ last.events[5] = ChmodEvent(KeyserverKeyring, Mode644)

\* C27: install_package_repository_key of a UCA entry raises before it
\* checks, looks up or installs anything and leaves the filesystem as it
\* was; a call that invoked the tool or changed a file was given a PPA or an
\* Apt entry.
C27_UcaEntryRaisesFirst ==
    last.op = "install_package_repository_key" =>
        /\ last.repo.kind = "uca" =>
              /\ last.exc.type = "RuntimeError"
              /\ last.events = <<>>
              /\ Fs = last.pre
              /\ last.key_id \notin installed
        /\ (last.events # <<>> \/ Fs # last.pre) => last.repo.kind \in {"apt", "ppa"}

\* C27's case: a UCA entry was refused while a keyring file is there.
C27_Witness ==
    /\ last.op = "install_package_repository_key"
    /\ last.repo = PackageRepositoryAptUCA
    /\ last.exc.type = "RuntimeError"
    /\ DOMAIN files # {}

\* C28: when install_package_repository_key installed from a local asset
\* and returned true, the keyring file it wrote is the keyring file of the
\* entry's key id.
C28_AssetKeyringIsTheInspectedOne ==
    ( /\ last.op = "install_package_repository_key"
      /\ Returned
      /\ last.ret = TRUE
      /\ EventsOf("gpg", {"--import"}) # {} )
    => \A i \in EventsOf("gpg", {"--import"}) :
          last.events[i].keyring = KeyringFileOf(keyringsPath, last.key_id)

(***************************************************************************)
(* The old releases: a call of _is_on_old_releases, one request at a time, *)
(* or a call of use_old_releases on a root.                                *)
(***************************************************************************)
MaxRetries == 3

\* A call of _is_on_old_releases with an http or another archive_url and
\* with 0..MaxRetries retries; or a root whose sources.list is missing,
\* empty, only comments, one or two sources, or a line that does not parse,
\* whose ubuntu.sources is missing, one paragraph of two suites, two
\* paragraphs, a paragraph with Architectures and Enabled, a paragraph
\* whose Types line has no value before a second one, a comment before a
\* paragraph, or a paragraph that does not validate, and an archive that
\* answers each suite in one of the three ways.
OldReleasesInit ==
    LET Line(field, value) == <<field, ":", " ">> \o value \o <<"\n">>
        archive == <<"http", "://", "archive.ubuntu.com", "/", "ubuntu">>
        security == <<"http", "://", "security.ubuntu.com">>
        Paragraph(types, uris, suites) ==
            types \o Line("URIs", uris) \o Line("Suites", suites)
            \o Line("Components", <<"main", " ", "universe">>)
        jammy == <<"deb", " ">> \o archive \o <<" ", "jammy", " ", "main", " ", "universe", "\n">>
        updates == <<"deb-src", "\t">> \o security \o <<" ", " ", "jammy-updates", " ", "main", "\n">>
        noble == <<"deb", " ">> \o archive \o <<" ", "noble", " ", "main", "\n">>
        comment == <<"#", " ", "See", " ", "sources.list.d", "\n", "\n">>
        ListFiles ==
            { Missing, Present(<<>>), Present(comment), Present(jammy),
              Present(comment \o jammy \o updates), Present(noble \o jammy),
              Present(jammy \o <<"deb", " ">> \o archive \o <<" ", "noble", "\n">>) }
        DebFiles ==
            { Missing,
              Present(Paragraph(Line("Types", <<"deb">>), archive,
                                <<"jammy", " ", "jammy-updates">>)
                      \o Line("Signed-By", <<"/usr/share/keyrings/archive.gpg">>)),
              Present(Paragraph(Line("Types", <<"deb", " ", "deb-src">>), archive, <<"jammy">>)
                      \o <<"\n">> \o Paragraph(Line("Types", <<"deb">>), security, <<"noble">>)),
              Present(Paragraph(Line("Types", <<"deb">>), archive, <<"noble">>)
                      \o Line("Architectures", <<"amd64">>) \o Line("Enabled", <<"yes">>)),
              Present(Paragraph(<<"Types", "\n">>, archive, <<"jammy">>)
                      \o <<"\n">> \o Paragraph(Line("Types", <<"deb">>), archive, <<"noble">>)),
              Present(<<"#", " ", "comment", "\n", "\n">>
                      \o Paragraph(Line("Types", <<"deb">>), archive, <<"jammy">>)),
              Present(Paragraph(Line("Types", <<"rpm">>), archive, <<"jammy">>)) }
    IN  /\ NoManager
        /\ NoRepository
        /\ NoSources
        /\ \/ /\ probe \in {Probe(http, n) : http \in BOOLEAN, n \in 0..MaxRetries}
              /\ etc = [list |-> Missing, deb |-> Missing]
              /\ site = [suite \in Suites |-> "absent"]
           \/ /\ probe = NoProbe
              /\ etc \in [list : ListFiles, deb : DebFiles]
              /\ site \in [Suites -> {"found", "absent", "error"}]
        /\ moved = [status |-> "none", ret |-> FALSE, exc |-> "", pre |-> etc]

\* One level of the call of _is_on_old_releases, with what urlopen gives.
DoIsOnOldReleases ==
    /\ probe.status = "running"
    /\ \E response \in Responses : probe' = IsOnOldReleases(probe, response)
    /\ UNCHANGED <<etc, site, moved, managerVars, repoVars, sourcesVars>>

\* A call of use_old_releases on the root.
DoUseOldReleases ==
    /\ probe.status = "none"
    /\ moved.status = "none"
    /\ \E done \in {UseOldReleases(etc, site)} :
          /\ etc' = done.fs
          /\ moved' = [status |-> done.status, ret |-> done.ret, exc |-> done.exc,
                       pre |-> etc]
    /\ UNCHANGED <<probe, site, managerVars, repoVars, sourcesVars>>

OldReleasesNext == DoIsOnOldReleases \/ DoUseOldReleases

\* A call of _is_on_old_releases that was started goes on: urlopen answers
\* or fails, and the sleep before a retry ends.
OldReleasesSpec ==
    OldReleasesInit /\ [][OldReleasesNext]_vars /\ WF_vars(DoIsOnOldReleases)

\* The answer was an HTTPError of a client error, or of another status.
ClientError(response) ==
    /\ response.error
    /\ BAD_REQUEST <= response.status
    /\ response.status < INTERNAL_SERVER_ERROR

OtherError(response) == response.error /\ response.status # 0 /\ ~ClientError(response)

\* What holds of a call at every request.
WithinRetries ==
    probe.status # "none" =>
        /\ probe.requests <= probe.retries + 1
        /\ probe.sleeps = probe.retries - probe.left
        /\ probe.left >= 0
        /\ ClientError(probe.response)
           => ( /\ probe.status = "returned" /\ probe.result = FALSE
                /\ probe.sleeps = probe.requests - 1 )
        /\ OtherError(probe.response)
           => \/ /\ probe.status = "running"
                 /\ probe.sleeps = probe.requests
                 /\ probe.requests <= probe.retries
              \/ /\ probe.status = "raised"
                 /\ probe.exc = "HTTPError"
                 /\ probe.requests = probe.retries + 1

Ended == probe.status \in {"returned", "raised"}

\* C25: a call of _is_on_old_releases with N retries ends after at most
\* N + 1 requests; a client error (400..499) makes it return False at once,
\* without a retry; any other HTTP error is retried while retries are left
\* and is raised when none is left.
C25_EndsWithinRetries == []WithinRetries /\ <>(probe.status = "none" \/ Ended)

\* A call with retries left got a server error, slept and asked again, and
\* the answer was a client error.
C25_Witness ==
    /\ probe.status = "returned"
    /\ probe.retries = MaxRetries
    /\ probe.requests = 2
    /\ probe.sleeps = 1
    /\ probe.response = [error |-> TRUE, status |-> 404]
    /\ probe.result = FALSE

\* The sources use_old_releases reads from the files fs: those of
\* sources.list, or those of ubuntu.sources when it has none.
UsesDeb822(fs) == FromSourcesList(SplitLines(fs.list.text)).list = <<>>

DefaultSources(fs, uses_deb822) ==
    IF uses_deb822 THEN FromDeb822(fs.deb.text)
    ELSE FromSourcesList(SplitLines(fs.list.text))

\* A suite of the source is found on the old-releases site.
Matching(repo) == \E i \in DOMAIN repo.suites : site[repo.suites[i]] = "found"

\* C26: use_old_releases returns True exactly when a suite of a default
\* source it read is found on the old-releases site; when it returns False
\* no file is written; when it returns True only the file the sources were
\* read from is rewritten, and in it every source with a matching suite has
\* the old-releases URL as its only uri, and every other source has the
\* uris, types, suites and components it had.
C26_OnlyMatchingSourcesMove ==
    moved.status = "returned" =>
        LET uses_deb822 == UsesDeb822(moved.pre)
            before == DefaultSources(moved.pre, uses_deb822).list
            after == DefaultSources(etc, uses_deb822)
        IN  /\ moved.ret = (\E k \in DOMAIN before : Matching(before[k]))
            /\ ~moved.ret => etc = moved.pre
            /\ moved.ret =>
                  /\ uses_deb822 => etc.list = moved.pre.list
                  /\ ~uses_deb822 => etc.deb = moved.pre.deb
                  /\ after.status = "ok"
                  /\ Len(after.list) = Len(before)
                  /\ \A k \in DOMAIN before :
                        IF Matching(before[k])
                        THEN after.list[k].uris = <<OldReleasesUrl>>
                        ELSE /\ after.list[k].uris = before[k].uris
                             /\ after.list[k].types = before[k].types
                             /\ after.list[k].suites = before[k].suites
                             /\ after.list[k].components = before[k].components

====
